---------------------------- MODULE Spec2Model ----------------------------
(***************************************************************************)
(* A model of ConfluenceMdExporter: the conversion pipeline                *)
(* (src/src/markdown-converter.ts), the Confluence client                  *)
(* (src/src/confluence-client.ts), the Wiki.js page paths                  *)
(* (src/src/wikijs-client.ts) and the commands (src/src/index.ts).         *)
(*                                                                         *)
(* Text is a sequence of symbols.  A symbol is one character of the text   *)
(* ("<", "-", " ", "\n", ...) or one opaque run of letters and digits that *)
(* no pattern of the program splits ("Confluence", "info", "a").  Every    *)
(* regular expression of the source is translated into a matcher over such *)
(* sequences: MatchX(s, i) is the position after the match of X that       *)
(* starts at position i of s, and 0 when X does not match there.           *)
(***************************************************************************)
EXTENDS Integers, Sequences, FiniteSets, TLC

VARIABLES
  pc,              \* position of the run: which call has returned
  input,           \* the argument of the operation under analysis
  output,          \* the values returned so far, in call order
  log,             \* the console.log / console.error lines that matter
  allImages,       \* downloadAndUpdateImages: the discovered references
  idx,             \* downloadAndUpdateImages: index of the loop
  updatedMarkdown, \* downloadAndUpdateImages: the text being rewritten
  downloadCount,   \* downloadAndUpdateImages: the counter of line 584
  files,           \* the image directory: names of the files written
  requests,        \* the requests issued, in order
  baseURL,         \* ConfluenceClient: client.defaults.baseURL
  start,           \* getAllPagesFromSpace: the offset of the next request
  allPages,        \* getAllPagesFromSpace: the pages received so far
  results,         \* the commands of index.ts: the result entries pushed
  wikiPages        \* the Wiki.js site: the page stored at each path

vars == <<pc, input, output, log, allImages, idx, updatedMarkdown,
          downloadCount, files, requests, baseURL, start, allPages, results,
          wikiPages>>

imgVars == <<allImages, idx, updatedMarkdown, downloadCount, files, requests>>

cliVars == <<baseURL, start, allPages, results, wikiPages>>

\* No client and no command of index.ts is running.
CliIdle ==
  /\ baseURL = <<>>
  /\ start = 0
  /\ allPages = <<>>
  /\ results = <<>>
  /\ wikiPages = <<>>

\* The image pipeline is not running.
ImgIdle ==
  /\ allImages = <<>>
  /\ idx = 0
  /\ updatedMarkdown = <<>>
  /\ downloadCount = 0
  /\ files = {}
  /\ requests = <<>>

(***************************************************************************)
(* Strings                                                                 *)
(***************************************************************************)

\* s has p at position i  (a literal inside a pattern).
HasAt(s, i, p) ==
  /\ i >= 1
  /\ i + Len(p) - 1 <= Len(s)
  /\ \A k \in 1..Len(p) : s[i + k - 1] = p[k]

\* String.prototype.startsWith
StartsWith(s, p) == HasAt(s, 1, p)

\* The least position >= i where p occurs in s, 0 when there is none
\* (String.prototype.indexOf, 1-based).
IndexOfFrom(s, p, i) ==
  LET hits == {j \in i..Len(s) : HasAt(s, j, p)}
  IN  IF hits = {} THEN 0 ELSE CHOOSE j \in hits : \A k \in hits : j <= k

\* String.prototype.includes
Includes(s, p) == \E j \in 1..(Len(s) + 1) : HasAt(s, j, p)

\* The least position >= i whose symbol is in set cs, Len(s) + 1 when none.
FirstIn(s, cs, i) ==
  LET hits == {j \in i..Len(s) : s[j] \in cs}
  IN  IF hits = {} THEN Len(s) + 1 ELSE CHOOSE j \in hits : \A k \in hits : j <= k

\* The least position >= i whose symbol is not in set cs, Len(s) + 1 when none:
\* the end of the greedy run cs* that starts at i.
RunEnd(s, cs, i) ==
  LET hits == {j \in i..Len(s) : s[j] \notin cs}
  IN  IF hits = {} THEN Len(s) + 1 ELSE CHOOSE j \in hits : \A k \in hits : j <= k

\* \s of a regular expression, and what String.prototype.trim removes.
WhiteSpace == {" ", "\n", "\t"}

\* Symbols that are not \w: the punctuation characters of the alphabet.
Punctuation ==
  {"<", ">", "!", "-", " ", "\n", "\t", ":", "*", "\"", "/", "\\", "|", "?",
   ".", "=", "[", "]", "(", ")", "&", "'", "#", ";", "%", ","}

IsWordSym(c) == c \notin Punctuation

\* String.prototype.trim
Trim(s) ==
  LET keep == {j \in 1..Len(s) : s[j] \notin WhiteSpace}
  IN  IF keep = {} THEN <<>>
      ELSE SubSeq(s, CHOOSE j \in keep : \A k \in keep : j <= k,
                     CHOOSE j \in keep : \A k \in keep : j >= k)

\* Concatenation of a sequence of strings.
RECURSIVE FlattenRange(_, _, _)
FlattenRange(ss, lo, hi) ==
  IF lo > hi THEN <<>>
  ELSE IF lo = hi THEN ss[lo]
       ELSE LET mid == (lo + hi) \div 2
            IN  FlattenRange(ss, lo, mid) \o FlattenRange(ss, mid + 1, hi)

Flatten(ss) == FlattenRange(ss, 1, Len(ss))

\* String.prototype.replace with a global pattern: m[i] is the match that
\* starts at i, as [end |-> position after it (0: no match), rep |-> its
\* replacement].  The scan is leftmost-first and resumes after each match.
\* ScanRange(s, m, lo, hi, keep) scans from position lo while the position
\* is below hi: [out |-> the text produced, pos |-> where the scan stands];
\* the symbols outside the matches are copied when keep holds.
RECURSIVE ScanRange(_, _, _, _, _)
ScanRange(s, m, lo, hi, keep) ==
  IF lo >= hi THEN [out |-> <<>>, pos |-> lo]
  ELSE IF hi = lo + 1
       THEN LET r == m[lo]
            IN  IF r.end > 0 THEN [out |-> r.rep, pos |-> r.end]
                ELSE [out |-> IF keep THEN <<s[lo]>> ELSE <<>>, pos |-> lo + 1]
       ELSE LET mid == (lo + hi) \div 2
                a == ScanRange(s, m, lo, mid, keep)
                b == ScanRange(s, m, a.pos, hi, keep)
            IN  [out |-> a.out \o b.out, pos |-> b.pos]

ReplaceAll(s, m) ==
  CHOOSE out \in {ScanRange(s, t, 1, Len(s) + 1, TRUE).out : t \in {f \in {m} : f = m}} : TRUE

\* The loop while ((match = regex.exec(s)) !== null): the matches of a
\* global pattern in order, m[i].rep being <<the match that starts at i>>.
MatchAll(s, m) ==
  CHOOSE out \in {ScanRange(s, t, 1, Len(s) + 1, FALSE).out : t \in {f \in {m} : f = m}} : TRUE

\* String.prototype.replace with a string pattern: the first occurrence.
ReplaceFirst(s, p, r) ==
  LET j == IndexOfFrom(s, p, 1)
  IN  IF j = 0 THEN s ELSE SubSeq(s, 1, j - 1) \o r \o SubSeq(s, j + Len(p), Len(s))

NoMatch == [end |-> 0, rep |-> <<>>]

(***************************************************************************)
(* Destination Format Adapter: convertToWikiJsMarkdown                     *)
(***************************************************************************)

CommentOpen == <<"<", "!", "-", "-", " ">>
CommentClose == <<" ", "-", "-", ">">>
ConfluenceOpen == <<"<", "!", "-", "-", " ", "Confluence", " ">>
MacroOpen == <<"<", "!", "-", "-", " ", "Confluence", " ", "Macro", ":", " ">>
EndOpen == <<"\n", "<", "!", "-", "-", " ", "End", " ">>

\* open [^>]+ " -->" \n? at position i.  [^>]+ cannot pass a ">", and the
\* closing literal ends with one, so the match ends at the first ">" after
\* the opening literal.
MatchCommentWith(s, i, open) ==
  IF ~HasAt(s, i, open) THEN 0
  ELSE LET b == i + Len(open)
           g == FirstIn(s, {">"}, b)
       IN  IF g <= Len(s) /\ g - 4 >= b /\ HasAt(s, g - 3, CommentClose)
           THEN IF g + 1 <= Len(s) /\ s[g + 1] = "\n" THEN g + 2 ELSE g + 1
           ELSE 0

\* /<!-- Confluence [^>]+ -->\n?/g
MatchConfluenceComment(s, i) == MatchCommentWith(s, i, ConfluenceOpen)

\* /<!-- [^>]+ -->\n?/g
MatchAnyComment(s, i) == MatchCommentWith(s, i, CommentOpen)

\* "\n<!-- End " \w+ " -->" at position j: the position after it, or 0.
MatchEndMarker(s, j) ==
  IF ~HasAt(s, j, EndOpen) THEN 0
  ELSE LET w == j + Len(EndOpen)
           we == FirstIn(s, Punctuation, w)   \* the end of the run \w+
       IN  IF we > w /\ HasAt(s, we, CommentClose) THEN we + 4 ELSE 0

\* /<!-- Confluence Macro: (\w+) -->\n(.*?)\n<!-- End \w+ -->/gs at i:
\* [end, name, content], end = 0 when there is no match.  The content is
\* lazy: it stops at the first end marker.
MatchMacroBlock(s, i) ==
  IF ~HasAt(s, i, MacroOpen) THEN [end |-> 0, name |-> <<>>, content |-> <<>>]
  ELSE LET w == i + Len(MacroOpen)
           we == FirstIn(s, Punctuation, w)
           c == we + 5
           ends == {j \in c..Len(s) : MatchEndMarker(s, j) > 0}
       IN  IF we > w /\ HasAt(s, we, CommentClose \o <<"\n">>) /\ ends # {}
           THEN LET j == CHOOSE x \in ends : \A y \in ends : x <= y
                IN  [end |-> MatchEndMarker(s, j),
                     name |-> SubSeq(s, w, we - 1),
                     content |-> SubSeq(s, c, j - 1)]
           ELSE [end |-> 0, name |-> <<>>, content |-> <<>>]

\* content.replace(/\n/g, '\n> ')
QuoteLines(content) ==
  ReplaceAll(content,
    [i \in 1..Len(content) |->
       IF content[i] = "\n" THEN [end |-> i + 1, rep |-> <<"\n", ">", " ">>]
       ELSE NoMatch])

\* String.prototype.toLowerCase on the letter runs of the alphabet.
LowerSym(c) ==
  CASE c \in {"Info", "INFO"} -> "info"
    [] c \in {"Warning", "WARNING"} -> "warning"
    [] c \in {"Note", "NOTE"} -> "note"
    [] c \in {"Tip", "TIP"} -> "tip"
    [] c \in {"Code", "CODE"} -> "code"
    [] c \in {"Noformat", "NOFORMAT"} -> "noformat"
    [] c \in {"Table", "TABLE"} -> "table"
    [] c \in {"TH", "Th"} -> "th"
    [] c \in {"TD", "Td"} -> "td"
    [] c = "CDATA" -> "cdata"
    [] c \in {"Image", "IMAGE"} -> "image"
    [] c \in {"Release", "RELEASE"} -> "release"
    [] c \in {"Notes", "NOTES"} -> "notes"
    [] c \in {"Docs", "DOCS"} -> "docs"
    [] c \in {"Ue", "UE"} -> "ue"
    [] OTHER -> c

ToLowerCase(s) == [k \in 1..Len(s) |-> LowerSym(s[k])]

\* The label of the switch of lines 926-935.
CalloutLabel(name) ==
  CASE ToLowerCase(name) = <<"info">> -> <<"Info">>
    [] ToLowerCase(name) = <<"warning">> -> <<"Warning">>
    [] ToLowerCase(name) = <<"note">> -> <<"Note">>
    [] OTHER -> name

\* The replacement function of lines 925-936.
CalloutOf(name, content) ==
  <<">", " ", "*", "*">> \o CalloutLabel(name) \o <<"*", "*", "\n", ">", " ">>
    \o QuoteLines(content) \o <<"\n">>

\* /\n{3,}/g -> '\n\n'
CollapseNewlines(s) ==
  ReplaceAll(s,
    [i \in 1..Len(s) |->
       LET e == RunEnd(s, {"\n"}, i)
       IN  IF e - i >= 3 THEN [end |-> e, rep |-> <<"\n", "\n">>] ELSE NoMatch])

StripConfluenceComments(s) ==
  ReplaceAll(s,
    [i \in 1..Len(s) |->
       LET e == MatchConfluenceComment(s, i)
       IN  IF e > 0 THEN [end |-> e, rep |-> <<>>] ELSE NoMatch])

ConvertMacroBlocks(s) ==
  ReplaceAll(s,
    [i \in 1..Len(s) |->
       LET m == MatchMacroBlock(s, i)
       IN  IF m.end > 0 THEN [end |-> m.end, rep |-> CalloutOf(m.name, m.content)]
           ELSE NoMatch])

StripRemainingComments(s) ==
  ReplaceAll(s,
    [i \in 1..Len(s) |->
       LET e == MatchAnyComment(s, i)
       IN  IF e > 0 THEN [end |-> e, rep |-> <<>>] ELSE NoMatch])

convertToWikiJsMarkdown(markdown) ==
  Trim(CollapseNewlines(StripRemainingComments(ConvertMacroBlocks(
    StripConfluenceComments(markdown)))))

\* The pieces the adapter's inputs are made of.
FragText == <<"x">>
FragNewline == <<"\n">>
FragComment == <<"<", "!", "-", "-", " ", "a", " ", "-", "-", ">">>
FragConfluenceComment ==
  <<"<", "!", "-", "-", " ", "Confluence", " ", "Attachment", ":", " ", "f",
    " ", "-", "-", ">">>
FragHalfOpen == <<"<", "!", "-">>
FragHalfClose == <<"-", " ", "b", " ", "-", "-", ">">>
FragBlockRest ==
  <<"-", " ", "Confluence", " ", "Macro", ":", " ", "Info", " ", "-", "-", ">",
    "\n", "x", "\n", "y", "\n", "<", "!", "-", "-", " ", "End", " ", "Info",
    " ", "-", "-", ">">>
FragMacroBlock == <<"<", "!", "-">> \o FragBlockRest

AdapterFragments ==
  {FragText, FragNewline, FragComment, FragConfluenceComment, FragHalfOpen,
   FragHalfClose, FragBlockRest, FragMacroBlock}

MaxFragments == 3

AdapterInputs ==
  {Flatten(fs) : fs \in UNION {[1..n -> AdapterFragments] : n \in 0..MaxFragments}}

InitAdapter ==
  /\ pc = "ready"
  /\ input \in AdapterInputs
  /\ output = <<>>
  /\ log = <<>>
  /\ ImgIdle
  /\ CliIdle

\* A call of convertToWikiJsMarkdown on the Markdown text.
ConvertToWikiJs ==
  /\ pc = "ready"
  /\ output' = <<convertToWikiJsMarkdown(input)>>
  /\ pc' = "converted"
  /\ UNCHANGED <<cliVars, input, log, imgVars>>

\* A second call, on the text the first call returned.
ReconvertToWikiJs ==
  /\ pc = "converted"
  /\ output' = Append(output, convertToWikiJsMarkdown(output[1]))
  /\ pc' = "reconverted"
  /\ UNCHANGED <<cliVars, input, log, imgVars>>

NextAdapter == ConvertToWikiJs \/ ReconvertToWikiJs

SpecAdapter == InitAdapter /\ [][NextAdapter]_vars

\* C1: running the Destination Format Adapter on its own output changes
\* nothing: convertToWikiJsMarkdown(convertToWikiJsMarkdown(x)) equals
\* convertToWikiJsMarkdown(x) for every input x.
C1_AdapterIdempotent == pc = "reconverted" => output[2] = output[1]

(***************************************************************************)
(* Custom Rule Table, default table mode: the rules of applyCustomRules    *)
(* for table, thead/tbody/tfoot and tr.  A table is the DOM the Rewrite    *)
(* Engine hands to the rules: [children |-> the element children of the    *)
(* table], a child being [tag, rows] (a colgroup has no rows), a row a     *)
(* sequence of cells [tag, text, bg], where bg is <<>> when the style has  *)
(* no background-color, <<r, g, b>> for rgb(r, g, b) and <<name>> for any  *)
(* other colour.                                                           *)
(***************************************************************************)

\* Array.prototype.join
JoinWith(parts, sep) ==
  Flatten([k \in 1..Len(parts) |-> IF k = 1 THEN parts[k] ELSE sep \o parts[k]])

\* The names getColorName can return, in the order of its tests.
BandNames == <<"success", "warning", "error", "neutral", "info">>

\* The threshold condition of the band called name (lines 1063-1067).
InBand(name, r, g, b) ==
  CASE name = "success" -> r >= 220 /\ g >= 240 /\ b >= 200
    [] name = "warning" -> r >= 250 /\ g >= 240 /\ b >= 160
    [] name = "error" -> r >= 250 /\ g >= 230 /\ b >= 220
    [] name = "neutral" -> r >= 240 /\ g >= 240 /\ b >= 240
    [] name = "info" -> r >= 220 /\ g >= 240 /\ b >= 250

\* getColorName with a success band that starts at red 240.
getColorNameNarrowSuccess(r, g, b) ==
  IF r >= 240 /\ g >= 240 /\ b >= 200 THEN <<"success">>
  ELSE IF InBand("warning", r, g, b) THEN <<"warning">>
  ELSE IF InBand("error", r, g, b) THEN <<"error">>
  ELSE IF InBand("neutral", r, g, b) THEN <<"neutral">>
  ELSE IF InBand("info", r, g, b) THEN <<"info">>
  ELSE <<>>

getColorName(r, g, b) ==
  IF InBand("success", r, g, b) THEN <<"success">>
  ELSE IF InBand("warning", r, g, b) THEN <<"warning">>
  ELSE IF InBand("error", r, g, b) THEN <<"error">>
  ELSE IF InBand("neutral", r, g, b) THEN <<"neutral">>
  ELSE IF InBand("info", r, g, b) THEN <<"info">>
  ELSE <<>>

\* The cell text of lines 418-448: the trimmed text, a space for an empty
\* cell, and the annotation of the background colour.
CellText(cell) ==
  LET trimmed == Trim(cell.text)
      cellText == IF trimmed = <<>> THEN <<" ">> ELSE trimmed
  IN  IF cell.bg = <<>> THEN cellText
      ELSE IF Len(cell.bg) = 3
           THEN LET colorName == getColorName(cell.bg[1], cell.bg[2], cell.bg[3])
                IN  IF colorName # <<>>
                    THEN cellText \o <<" ", "{", ".">> \o colorName \o <<"}">>
                    ELSE cellText \o <<" ", "{", ".", "color", "-", ToString(cell.bg[1]),
                                       "-", ToString(cell.bg[2]), "-",
                                       ToString(cell.bg[3]), "}">>
           ELSE cellText \o <<" ", "{", ".", "bg", "-">> \o cell.bg \o <<"}">>

\* const row = '| ' + cells.join(' | ') + ' |'
RowLine(row) ==
  <<"|", " ">> \o JoinWith([k \in 1..Len(row) |-> CellText(row[k])], <<" ", "|", " ">>)
    \o <<" ", "|">>

\* '| ' + Array(cells.length).fill('---').join(' | ') + ' |'
SeparatorLine(n) ==
  <<"|", " ">> \o JoinWith([k \in 1..n |-> <<"-", "-", "-">>], <<" ", "|", " ">>)
    \o <<" ", "|">>

\* isHeaderRow of line 453: some child of the row is a th.
IsHeaderRow(row) == \E k \in 1..Len(row) : row[k].tag = "th"

\* node.parentElement?.firstElementChild === node, for the row ri of child ci.
FirstOfParent(table, ci, ri) == ri = 1

\* node.parentElement?.parentElement?.firstElementChild?.firstElementChild === node:
\* the row is the first child of the first child of the table.
FirstOfFirstChild(table, ci, ri) ==
  ci = 1 /\ ri = 1 /\ Len(table.children[1].rows) >= 1

\* isFirstRow of lines 458-459.
IsFirstRow(table, ci, ri) ==
  FirstOfParent(table, ci, ri) \/ FirstOfFirstChild(table, ci, ri)

\* The condition of line 461 without its test of isHeaderRow.
NeedsSeparatorAnyFirstRow(table, ci, ri) == IsFirstRow(table, ci, ri)

\* The condition of line 461.
NeedsSeparator(table, ci, ri) ==
  IsHeaderRow(table.children[ci].rows[ri]) /\ IsFirstRow(table, ci, ri)

\* The replacement of the tableRow rule for row ri of child ci.
tableRow(table, ci, ri) ==
  LET row == table.children[ci].rows[ri]
  IN  IF NeedsSeparator(table, ci, ri)
      THEN RowLine(row) \o <<"\n">> \o SeparatorLine(Len(row)) \o <<"\n">>
      ELSE RowLine(row) \o <<"\n">>

\* The tableSection rule returns the content of its rows unchanged.
tableSection(table, ci) ==
  Flatten([ri \in 1..Len(table.children[ci].rows) |-> tableRow(table, ci, ri)])

\* The confluenceTable rule: '\n\n' + content + '\n\n'.
confluenceTable(table) ==
  <<"\n", "\n">> \o Flatten([ci \in 1..Len(table.children) |-> tableSection(table, ci)])
    \o <<"\n", "\n">>

\* The non-empty lines of a text, in order.
SplitLines(s) ==
  LET t == <<"\n">> \o s \o <<"\n">>
      nl == {j \in 1..Len(t) : t[j] = "\n"}
      starts == {j \in nl : j < Len(t) /\ t[j + 1] # "\n"}
      Rank(j) == Cardinality({k \in starts : k <= j})
  IN  [n \in 1..Cardinality(starts) |->
         LET b == CHOOSE j \in starts : Rank(j) = n
         IN  SubSeq(t, b + 1, FirstIn(t, {"\n"}, b + 1) - 1)]

\* A line that matches /^\|( *---+ *\|)+$/.
IsSeparatorLine(line) ==
  LET bars == {j \in 1..Len(line) : line[j] = "|"}
  IN  /\ Len(line) >= 2
      /\ line[1] = "|"
      /\ line[Len(line)] = "|"
      /\ \A j \in 1..Len(line) : line[j] \in {"|", " ", "-"}
      /\ \A j \in bars \ {Len(line)} :
           LET e == FirstIn(line, {"|"}, j + 1)
               seg == SubSeq(line, j + 1, e - 1)
               dashes == {k \in 1..Len(seg) : seg[k] = "-"}
           IN  /\ Cardinality(dashes) >= 3
               /\ \A a \in dashes, c \in dashes, k \in 1..Len(seg) :
                    (a <= k /\ k <= c) => seg[k] = "-"

Th == [tag |-> "th", text |-> <<"h">>, bg |-> <<>>]
Td == [tag |-> "td", text |-> <<" ", "d", " ">>, bg |-> <<>>]
TdEmpty == [tag |-> "td", text |-> <<>>, bg |-> <<>>]

RowShapes == {<<Th>>, <<Th, Th>>, <<Th, Td>>, <<Td, Td>>, <<Td, TdEmpty>>}

MaxRows == 2

RowLists == UNION {[1..n -> RowShapes] : n \in 1..MaxRows}

\* The element children a parsed table can have: its rows always sit in a
\* section, a colgroup may come first.
TableLayouts ==
  {<<"tbody">>, <<"thead", "tbody">>, <<"tbody", "tfoot">>, <<"colgroup", "tbody">>}

TableInputs ==
  {[children |-> [k \in 1..Len(layout) |->
                    [tag |-> layout[k],
                     rows |-> IF layout[k] = "colgroup" THEN <<>> ELSE rows[k]]]] :
     layout \in TableLayouts, rows \in [1..2 -> RowLists]}

InitTable ==
  /\ pc = "ready"
  /\ input \in TableInputs
  /\ output = <<>>
  /\ log = <<>>
  /\ ImgIdle
  /\ CliIdle

\* The Rewrite Engine converts the table with the default table rules.
ConvertTable ==
  /\ pc = "ready"
  /\ output' = <<confluenceTable(input)>>
  /\ pc' = "converted"
  /\ UNCHANGED <<cliVars, input, log, imgVars>>

NextTable == ConvertTable

SpecTable == InitTable /\ [][NextTable]_vars

(***************************************************************************)
(* The row rule on a cell with a background colour rgb(r, g, b).  The      *)
(* colour levels hold every threshold of getColorName, the value below it  *)
(* and values between them, so every combination of the threshold tests    *)
(* occurs.                                                                 *)
(***************************************************************************)
ColorLevels ==
  {0, 10, 159, 160, 199, 200, 210, 219, 220, 229, 230, 239, 240, 245, 249, 250, 255}

ColorTriples == {<<r, g, b>> : r \in ColorLevels, g \in ColorLevels, b \in ColorLevels}

\* A table of one body row with one cell of background colour bg.
ColoredTable(bg) ==
  [children |-> <<[tag |-> "tbody", rows |-> <<<<[tag |-> "td", text |-> <<"d">>, bg |-> bg]>>>>]>>]

\* The colour of the cell of a coloured table.
CellColor(table) == table.children[1].rows[1][1].bg

InitColor ==
  /\ pc = "ready"
  /\ input \in {ColoredTable(bg) : bg \in ColorTriples}
  /\ output = <<>>
  /\ log = <<>>
  /\ ImgIdle
  /\ CliIdle

SpecColor == InitColor /\ [][NextTable]_vars

\* The bands whose threshold condition holds for the triple bg.
BandsOf(bg) == {k \in 1..Len(BandNames) : InBand(BandNames[k], bg[1], bg[2], bg[3])}

\* C16: the five bands of getColorName are mutually exclusive: at most one
\* band's threshold condition holds for a triple, so the name returned does
\* not depend on the order of the tests.
C16_BandsMutuallyExclusive ==
  pc = "converted" => Cardinality(BandsOf(CellColor(input))) <= 1

\* The neutral and the info band lie inside the success band: getColorName
\* returns neither name.
NeutralAndInfoNeverReturned ==
  pc = "converted" =>
    /\ BandsOf(CellColor(input)) \cap {4, 5} # {} => 1 \in BandsOf(CellColor(input))
    /\ ~Includes(output[1], <<"neutral">>)
    /\ ~Includes(output[1], <<"info">>)

\* The table of one row whose cell text d carries the annotation class.
AnnotatedRow(class) ==
  <<"\n", "\n", "|", " ", "d", " ", "{", ".">> \o class \o <<"}", " ", "|", "\n", "\n", "\n">>

\* The fallback class of the triple bg.
FallbackClass(bg) ==
  <<"color", "-", ToString(bg[1]), "-", ToString(bg[2]), "-", ToString(bg[3])>>

RowPaths(table) ==
  UNION {{<<ci, ri>> : ri \in 1..Len(table.children[ci].rows)} :
           ci \in 1..Len(table.children)}

RowAt(table, p) == table.children[p[1]].rows[p[2]]

\* The number of rows before row p in document order.
RowsBefore(table, p) ==
  Cardinality({q \in RowPaths(table) : q[1] < p[1] \/ (q[1] = p[1] /\ q[2] < p[2])})

\* The structurally first row of the table.
IsFirstRowOfTable(table, p) == RowsBefore(table, p) = 0

\* The position among lines of the n-th line that is not a separator line:
\* the line of the n-th row (no cell text of the inputs is made of dashes).
RowLineIndex(lines, n) ==
  CHOOSE j \in 1..Len(lines) :
    /\ ~IsSeparatorLine(lines[j])
    /\ Cardinality({k \in 1..j : ~IsSeparatorLine(lines[k])}) = n

\* In the converted text a separator line directly follows the line of row p.
SeparatorFollows(table, lines, p) ==
  LET j == RowLineIndex(lines, RowsBefore(table, p) + 1)
  IN  j + 1 <= Len(lines) /\ IsSeparatorLine(lines[j + 1])

\* The number of '---' columns of a separator line.
SeparatorColumns(line) == Cardinality({j \in 1..Len(line) : line[j] = "|"}) - 1

\* C2: in default table mode a separator line is emitted after a row exactly
\* when that row is the structurally first row of the table and contains a
\* th cell; no other row, in whatever section, is followed by a separator.
C2_SeparatorOnlyAfterFirstRow ==
  pc = "converted" =>
    LET lines == SplitLines(output[1])
    IN  \A p \in RowPaths(input) :
          SeparatorFollows(input, lines, p) <=>
            (IsFirstRowOfTable(input, p) /\ IsHeaderRow(RowAt(input, p)))

\* The first row consists of th cells and every later row of td cells.
HeaderThenData(table) ==
  \A p \in RowPaths(table) :
    \A k \in 1..Len(RowAt(table, p)) :
      RowAt(table, p)[k].tag = IF IsFirstRowOfTable(table, p) THEN "th" ELSE "td"

\* C3: for a table whose first row consists of th cells and whose later rows
\* contain only td cells, the converted Markdown has exactly one separator
\* line, with as many '---' columns as the header row has cells, directly
\* after the header line.
C3_OneSeparatorUnderHeader ==
  (pc = "converted" /\ HeaderThenData(input)) =>
    LET lines == SplitLines(output[1])
        header == RowAt(input, CHOOSE p \in RowPaths(input) : IsFirstRowOfTable(input, p))
    IN  /\ Cardinality({j \in 1..Len(lines) : IsSeparatorLine(lines[j])}) = 1
        /\ Len(lines) = Cardinality(RowPaths(input)) + 1
        /\ lines[1] = RowLine(header)
        /\ IsSeparatorLine(lines[2])
        /\ SeparatorColumns(lines[2]) = Len(header)

\* A converted table with a two-cell header row in a thead and data rows in
\* the tbody.
C3_Witness ==
  /\ pc = "converted"
  /\ HeaderThenData(input)
  /\ Len(input.children) = 2
  /\ input.children[1].tag = "thead"
  /\ Len(input.children[1].rows[1]) = 2
  /\ Len(input.children[2].rows) = 2

(***************************************************************************)
(* File names: extractFilenameFromConfluenceUrl, sanitizeFilename and      *)
(* sanitizeImageFilename.  A file name is a sequence of one-character      *)
(* symbols, so that Len is its length.                                     *)
(***************************************************************************)

MaxFilenameLen == 200

\* The characters of /[<>:"/\\|?*]/.
InvalidChars == {"<", ">", ":", "\"", "/", "\\", "|", "?", "*"}

\* The characters encodeURIComponent escapes, with their escapes.
Escapes ==
  {<<" ", "2", "0">>, <<"\"", "2", "2">>, <<"#", "2", "3">>, <<"%", "2", "5">>,
   <<"&", "2", "6">>, <<"/", "2", "F">>, <<":", "3", "A">>, <<"<", "3", "C">>,
   <<"=", "3", "D">>, <<">", "3", "E">>, <<"?", "3", "F">>, <<"\\", "5", "C">>,
   <<"|", "7", "C">>}

EscapedChars == {e[1] : e \in Escapes}

encodeURIComponent(s) ==
  Flatten([k \in 1..Len(s) |->
     IF s[k] \in EscapedChars
     THEN LET e == CHOOSE x \in Escapes : x[1] = s[k] IN <<"%", e[2], e[3]>>
     ELSE <<s[k]>>])

\* A "%" at position k of s starts a well-formed escape.
WellEscaped(s, k) ==
  k + 2 <= Len(s) /\ \E e \in Escapes : e[2] = s[k + 1] /\ e[3] = s[k + 2]

\* decodeURIComponent throws URIError on a "%" that starts no escape.
DecodeThrows(s) == \E k \in 1..Len(s) : s[k] = "%" /\ ~WellEscaped(s, k)

\* decodeURIComponent, where it does not throw.
decodeURIComponent(s) ==
  ReplaceAll(s,
    [k \in 1..Len(s) |->
       IF s[k] = "%" /\ WellEscaped(s, k)
       THEN [end |-> k + 3,
             rep |-> <<(CHOOSE e \in Escapes : e[2] = s[k + 1] /\ e[3] = s[k + 2])[1]>>]
       ELSE NoMatch])

\* \d: the digit symbols of the alphabet (a run of digits is one symbol).
DigitSyms == {"0", "1", "2", "3", "4", "5", "6", "7", "8", "9", "123456", "654321"}

\* /\/download\/(?:attachments|thumbnails)\/\d+\/([^?]+)/ at position i:
\* [end |-> the position after the match (0: none), from |-> where the
\* group starts].
MatchAttachmentPath(url, i) ==
  LET d == RunEnd(url, DigitSyms, i + 5)
      e == FirstIn(url, {"?"}, d + 1)
  IN  IF /\ HasAt(url, i, <<"/", "download", "/">>)
         /\ i + 4 <= Len(url)
         /\ url[i + 3] \in {"attachments", "thumbnails"}
         /\ url[i + 4] = "/"
         /\ d > i + 5
         /\ d <= Len(url)
         /\ url[d] = "/"
         /\ e > d + 1
      THEN [end |-> e, from |-> d + 1]
      ELSE [end |-> 0, from |-> 0]

\* The first match of the pattern in url, as MatchAttachmentPath gives it.
FindAttachmentPath(url) ==
  LET hits == {i \in 1..Len(url) : MatchAttachmentPath(url, i).end > 0}
  IN  IF hits = {} THEN [end |-> 0, from |-> 0]
      ELSE MatchAttachmentPath(url, CHOOSE i \in hits : \A j \in hits : i <= j)

Unknown == <<"u", "n", "k", "n", "o", "w", "n">>

\* extractFilenameFromConfluenceUrl throws where decodeURIComponent does.
ExtractThrows(url) ==
  LET m == FindAttachmentPath(url)
  IN  m.end > 0 /\ DecodeThrows(SubSeq(url, m.from, m.end - 1))

extractFilenameFromConfluenceUrl(url) ==
  LET m == FindAttachmentPath(url)
  IN  IF m.end > 0 THEN decodeURIComponent(SubSeq(url, m.from, m.end - 1))
      ELSE Unknown

\* .replace(/[<>:"/\\|?*]/g, '_')
ReplaceInvalid(s) == [k \in 1..Len(s) |-> IF s[k] \in InvalidChars THEN "_" ELSE s[k]]

\* .replace(/\s+/g, '_') and .replace(/_+/g, '_'): each run of cs becomes "_".
SquashRuns(s, cs) ==
  ReplaceAll(s,
    [k \in 1..Len(s) |->
       IF s[k] \in cs THEN [end |-> RunEnd(s, cs, k), rep |-> <<"_">>] ELSE NoMatch])

\* .replace(/^_|_$/g, '')
StripUnderscores(s) ==
  LET a == IF Len(s) >= 1 /\ s[1] = "_" THEN 2 ELSE 1
      b == IF Len(s) >= a /\ s[Len(s)] = "_" THEN Len(s) - 1 ELSE Len(s)
  IN  SubSeq(s, a, b)

\* .substring(0, n)
Substring0(s, n) == SubSeq(s, 1, IF Len(s) < n THEN Len(s) ELSE n)

\* The chain of replacements shared by both sanitizers (lines 246-249, 267-270).
SanitizeChain(s) ==
  StripUnderscores(SquashRuns(SquashRuns(ReplaceInvalid(s), WhiteSpace), {"_"}))

sanitizeFilename(filename) == Substring0(SanitizeChain(filename), MaxFilenameLen)

\* filename.lastIndexOf('.'), 1-based, 0 when there is no dot.
LastDotIndex(s) ==
  LET dots == {k \in 1..Len(s) : s[k] = "."}
  IN  IF dots = {} THEN 0 ELSE CHOOSE k \in dots : \A j \in dots : j <= k

sanitizeImageFilename(filename) ==
  LET lastDotIndex == LastDotIndex(filename)
  IN  IF lastDotIndex = 0 THEN sanitizeFilename(filename)
      ELSE LET name == SubSeq(filename, 1, lastDotIndex - 1)
               extension == SubSeq(filename, lastDotIndex, Len(filename))
           IN  Substring0(SanitizeChain(name) \o extension, MaxFilenameLen)

\* The attachment URL the preprocessor and Confluence build for a file name.
AttachmentUrl(pageId, filename) ==
  <<"/", "download", "/", "attachments", "/", pageId, "/">> \o encodeURIComponent(filename)

MaxStem == 2

FileChars == {"a", " ", ":", "_"}

Stems == UNION {[1..n -> FileChars] : n \in 0..MaxStem}

\* Lengths of the run of letters that pads a name up to the limit.
PadLengths == {0, MaxFilenameLen - 5, MaxFilenameLen - 4, MaxFilenameLen - 3}

Extensions ==
  {<<>>, <<".", "p", "n", "g">>, <<".", "p", ":", "g">>, <<".", "t", ".", "g", "z">>}

FilenameInputs ==
  {stem \o [k \in 1..n |-> "a"] \o ext :
     stem \in Stems, n \in PadLengths, ext \in Extensions} \ {<<>>}

InitFilename ==
  /\ pc = "ready"
  /\ input \in {AttachmentUrl("123456", f) : f \in FilenameInputs}
  /\ output = <<>>
  /\ log = <<>>
  /\ ImgIdle
  /\ CliIdle

\* const originalFilename = this.extractFilenameFromConfluenceUrl(url)
ExtractFilename ==
  /\ pc = "ready"
  /\ ~ExtractThrows(input)
  /\ output' = <<extractFilenameFromConfluenceUrl(input)>>
  /\ pc' = "extracted"
  /\ UNCHANGED <<cliVars, input, log, imgVars>>

\* const sanitizedFilename = this.sanitizeImageFilename(originalFilename)
SanitizeImageFilename ==
  /\ pc = "extracted"
  /\ output' = Append(output, sanitizeImageFilename(output[1]))
  /\ pc' = "sanitized"
  /\ UNCHANGED <<cliVars, input, log, imgVars>>

NextFilename == ExtractFilename \/ SanitizeImageFilename

SpecFilename == InitFilename /\ [][NextFilename]_vars

\* The part of a name after its last dot.
SuffixAfterLastDot(s) == SubSeq(s, LastDotIndex(s) + 1, Len(s))

HasAtI(s, i, p) ==
  /\ i >= 1
  /\ i + Len(p) - 1 <= Len(s)
  /\ \A k \in 1..Len(p) : LowerSym(s[i + k - 1]) = p[k]

\* The element of a set that has one element.
Only(S) == CHOOSE x \in S : TRUE

\* The least element of a set of positions, 0 when it is empty.
LeastOr0(ps) == IF ps = {} THEN 0 ELSE CHOOSE j \in ps : \A k \in ps : j <= k

\* The least position >= i where p occurs in s whatever the case, 0 when none.
IndexOfFromI(s, p, i) == LeastOr0({j \in i..Len(s) : HasAtI(s, j, p)})

\* The steps of a pattern: each takes the position reached so far (0 once
\* the pattern has failed) and gives the position after the step (0 when
\* the step fails).
Lit(s, i, p) == IF i > 0 /\ HasAtI(s, i, p) THEN i + Len(p) ELSE 0

\* \s*
Ws0(s, i) == IF i = 0 THEN 0 ELSE RunEnd(s, WhiteSpace, i)

\* \s+
Ws1(s, i) == IF i > 0 /\ RunEnd(s, WhiteSpace, i) > i THEN RunEnd(s, WhiteSpace, i) ELSE 0

\* [^c]*c for the characters cs: the position after the first of them.
Past(s, i, cs) == IF i > 0 /\ FirstIn(s, cs, i) <= Len(s) THEN FirstIn(s, cs, i) + 1 ELSE 0

\* [^c]+c : as Past, with at least one character before c.
Past1(s, i, cs) == IF i > 0 /\ FirstIn(s, cs, i) > i THEN Past(s, i, cs) ELSE 0

\* [\s\S]*? followed by the literal p: the position of the first p.
LazyTo(s, i, p) == IF i = 0 THEN 0 ELSE IndexOfFromI(s, p, i)

\* The text from position a up to position b (0: no match, no text).
Between(s, a, b) == IF a > 0 /\ b > 0 THEN SubSeq(s, a, b - 1) ELSE <<>>

\* A group ([^"]+) or ([^"]*) that starts at a, e being the position after
\* the quote that closes it: [end |-> e, value |-> the group].
Group(s, a, e) == [end |-> e, value |-> Between(s, a, e - 1)]

\* The literals lits[k..] from position i, with \s* before each but the first.
RECURSIVE LitsFrom(_, _, _, _)
LitsFrom(s, i, lits, k) ==
  IF k > Len(lits) \/ i = 0 THEN i
  ELSE LitsFrom(s, Lit(s, IF k = 1 THEN i ELSE Ws0(s, i), lits[k]), lits, k + 1)

StructuredMacroOpen == <<"<", "ac:structured-macro">>
StructuredMacroClose == <<"<", "/", "ac:structured-macro", ">">>
AcNameAttr == <<"ac:name", "=", "\"">>
RichTextOpen == <<"<", "ac:rich-text-body", ">">>
RichTextClose == <<"<", "/", "ac:rich-text-body", ">">>
PlainTextCdataOpen == <<"<", "ac:plain-text-body", ">", "<", "!", "[", "cdata", "[">>
PlainTextCdataClose == <<"]", "]", ">", "<", "/", "ac:plain-text-body", ">">>

NoMacro == [end |-> 0, text |-> <<>>, name |-> <<>>, content |-> <<>>]

\* The match that starts at i, given a (where the name starts), g (the
\* position after the ">" of the opening tag) and c (where the closing tag
\* starts).
MacroAt(s, i, a, g, c) ==
  IF c = 0 THEN NoMacro
  ELSE [end |-> c + 4, text |-> SubSeq(s, i, c + 3),
        name |-> SubSeq(s, a, FirstIn(s, {"\""}, a) - 1),
        content |-> SubSeq(s, g, c - 1)]

\* The rest of the pattern after ac:name=", a being where the name starts:
\* ([^"]+)"[^>]*>([\s\S]*?)<\/ac:structured-macro>
MacroFromName(s, i, a) ==
  MacroAt(s, i, a, Past(s, Past1(s, a, {"\""}), {">"}),
          LazyTo(s, Past(s, Past1(s, a, {"\""}), {">"}), StructuredMacroClose))

\* /<ac:structured-macro\s+ac:name="([^"]+)"[^>]*>([\s\S]*?)<\/ac:structured-macro>/gi
\* at position i: the name runs to the first quote, the opening tag to the
\* first ">" after it and the content lazily to the first closing tag.
MatchStructuredMacro(s, i) ==
  MacroFromName(s, i, Lit(s, Ws1(s, Lit(s, i, StructuredMacroOpen)), AcNameAttr))

\* The match m when its name is one of names, no match otherwise.
NamedOnly(m, names) ==
  IF m.end > 0 /\ ToLowerCase(m.name) \in names THEN m ELSE NoMacro

\* The same pattern with the name fixed to one of names:
\* ac:name="table" (line 979) and ac:name="(code|noformat)" (line 82).
MatchNamedMacro(s, i, names) == NamedOnly(MatchStructuredMacro(s, i), names)

\* Group 1 of /<ac:rich-text-body>([\s\S]*?)<\/ac:rich-text-body>/i in
\* content, a being the position after the opening tag (0: none).
RichTextBody(content, a) ==
  [found |-> LazyTo(content, a, RichTextClose) > 0,
   body |-> Between(content, a, LazyTo(content, a, RichTextClose))]

\* content.match(/<ac:rich-text-body>([\s\S]*?)<\/ac:rich-text-body>/i):
\* [found |-> whether it matches, body |-> group 1].
RichTextMatch(content) ==
  RichTextBody(content, Lit(content, IndexOfFromI(content, RichTextOpen, 1), RichTextOpen))

\* if (richTextMatch) return richTextMatch[1]; return match
BodyOrMatch(richTextMatch, match) ==
  IF richTextMatch.found THEN richTextMatch.body ELSE match

\* The replacement of match m of the table macro pattern (lines 980-991).
TableMacroReplace(m) ==
  IF m.end = 0 THEN NoMatch
  ELSE [end |-> m.end, rep |-> BodyOrMatch(RichTextMatch(m.content), m.text)]

\* Lines 978-992: a table macro becomes its rich-text body, or stays.
TableMacroPass(s) ==
  ReplaceAll(s, [i \in 1..Len(s) |-> TableMacroReplace(MatchNamedMacro(s, i, {<<"table">>}))])

CellTags == {"th", "td"}

\* <(th|td) at position i.
IsCellOpen(s, i) == i + 1 <= Len(s) /\ s[i] = "<" /\ LowerSym(s[i + 1]) \in CellTags

\* The symbols of a class value that contain confluenceTh or confluenceTd.
ConfluenceCellClasses == {"confluenceTh", "confluenceTd", "confluenceth", "confluencetd"}

\* class="[^"]*confluenceT[hd][^"]*"([^>]*?)> at position j: the position
\* after the ">" (0: no match).
CellClassEnd(s, j) ==
  IF /\ HasAtI(s, j, <<"class", "=", "\"">>)
     /\ \E k \in (j + 3)..(FirstIn(s, {"\""}, j + 3) - 1) : s[k] \in ConfluenceCellClasses
  THEN Past(s, Past(s, j + 3, {"\""}), {">"})
  ELSE 0

\* '<$1$2$3>' for the class attribute at j (0: no match at i).
CellClassReplace(s, i, j) ==
  IF j = 0 THEN NoMatch
  ELSE [end |-> CellClassEnd(s, j),
        rep |-> SubSeq(s, i, j - 1) \o SubSeq(s, Past(s, j + 3, {"\""}), CellClassEnd(s, j) - 1)]

\* /<(th|td)([^>]*?)class="[^"]*confluenceT[hd][^"]*"([^>]*?)>/gi at i:
\* $2 is lazy, so the class attribute is the first one inside the tag that
\* fits.
MatchCellClass(s, i) ==
  IF ~IsCellOpen(s, i) THEN NoMatch
  ELSE CellClassReplace(s, i,
         LeastOr0({j \in (i + 2)..FirstIn(s, {">"}, i + 2) : CellClassEnd(s, j) > 0}))

\* <\/\1> at position l for the cell that opens at i.
ClosesCell(s, i, l) == HasAtI(s, l, <<"<", "/", LowerSym(s[i + 1]), ">">>)

\* /<(th|td)([^>]*?)>\s*<\/\1>/gi at i, rep = '<$1$2> </$1>'; g is the
\* position after the ">" of the opening tag.
EmptyCellReplace(s, i, g) ==
  IF g > 0 /\ ClosesCell(s, i, Ws0(s, g))
  THEN [end |-> Ws0(s, g) + 4,
        rep |-> SubSeq(s, i, g - 1) \o <<" ", "<", "/", s[i + 1], ">">>]
  ELSE NoMatch

MatchEmptyCell(s, i) ==
  IF ~IsCellOpen(s, i) THEN NoMatch ELSE EmptyCellReplace(s, i, Past(s, i + 2, {">"}))

\* /<table([^>]*?)>\s*<tbody>\s*<\/tbody>\s*<\/table>/gi at i, rep = ''.
MatchEmptyTable(s, i) ==
  [end |-> LitsFrom(s, Ws0(s, Past(s, Lit(s, i, <<"<", "table">>), {">"})),
                    <<<<"<", "tbody", ">">>, <<"<", "/", "tbody", ">">>,
                      <<"<", "/", "table", ">">>>>, 1),
   rep |-> <<>>]

\* /<(th|td)([^>]*?)>\s*([^<]*?)\s*<\/\1>/gi at i, rep = '<$1$2>$3</$1>':
\* the text runs from g to the first "<", and $3 is that text trimmed.
CellTextReplace(s, i, g) ==
  IF g > 0 /\ ClosesCell(s, i, FirstIn(s, {"<"}, g))
  THEN [end |-> FirstIn(s, {"<"}, g) + 4,
        rep |-> SubSeq(s, i, g - 1) \o Trim(SubSeq(s, g, FirstIn(s, {"<"}, g) - 1))
                  \o <<"<", "/", s[i + 1], ">">>]
  ELSE NoMatch

MatchCellText(s, i) ==
  IF ~IsCellOpen(s, i) THEN NoMatch ELSE CellTextReplace(s, i, Past(s, i + 2, {">"}))

\* Lines 995-998.
CellClassPass(s) == ReplaceAll(s, [i \in 1..Len(s) |-> MatchCellClass(s, i)])

\* Lines 1001-1004.
EmptyCellPass(s) == ReplaceAll(s, [i \in 1..Len(s) |-> MatchEmptyCell(s, i)])

\* Lines 1007-1010.
EmptyTablePass(s) == ReplaceAll(s, [i \in 1..Len(s) |-> MatchEmptyTable(s, i)])

\* Lines 1013-1016.
CellTextPass(s) == ReplaceAll(s, [i \in 1..Len(s) |-> MatchCellText(s, i)])

\* Lines 974-1019: each replace is applied to the result of the one before.
preprocessConfluenceTables(html) ==
  Only({CellTextPass(s4) :
          s4 \in {EmptyTablePass(s3) :
                    s3 \in {EmptyCellPass(s2) :
                              s2 \in {CellClassPass(s1) :
                                        s1 \in {TableMacroPass(html)}}}}})

\* escapeHtml (lines 178-187)
EscapeMap(c) ==
  CASE c = "&" -> <<"&", "amp", ";">>
    [] c = "<" -> <<"&", "lt", ";">>
    [] c = ">" -> <<"&", "gt", ";">>
    [] c = "\"" -> <<"&", "quot", ";">>
    [] c = "'" -> <<"&", "#", "039", ";">>
    [] OTHER -> <<c>>

escapeHtml(text) == Flatten([k \in 1..Len(text) |-> EscapeMap(text[k])])

\* <ac:parameter\s+ac:name="language"[^>]*> at position i of content: the
\* position after it (0: no match).
LanguageParamBody(content, i) ==
  Past(content,
       Lit(content, Ws1(content, Lit(content, i, <<"<", "ac:parameter">>)),
           <<"ac:name", "=", "\"", "language", "\"">>),
       {">"})

\* (.*?) from g to e: e when the text holds no line break, otherwise 0.
NoBreak(content, g, e) ==
  IF e > 0 /\ \A k \in g..(e - 1) : content[k] # "\n" THEN e ELSE 0

\* (.*?)<\/ac:parameter> from position g: where the closing tag starts.
LanguageParamEnd(content, g) ==
  NoBreak(content, g, LazyTo(content, g, <<"<", "/", "ac:parameter", ">">>))

\* languageMatch[1].trim() for the match that starts at i, '' when i is 0.
LanguageFrom(content, i) ==
  IF i = 0 THEN <<>>
  ELSE Trim(Between(content, LanguageParamBody(content, i),
                    LanguageParamEnd(content, LanguageParamBody(content, i))))

\* content.match(/<ac:parameter\s+ac:name="language"[^>]*>(.*?)<\/ac:parameter>/i)
\* and const language = languageMatch ? languageMatch[1].trim() : ''
LanguageOf(content) ==
  LanguageFrom(content,
    LeastOr0({i \in 1..Len(content) :
                LanguageParamEnd(content, LanguageParamBody(content, i)) > 0}))

\* Group 1 of the CDATA pattern, a being the position after <![CDATA[.
CdataBody(content, a) == Between(content, a, LazyTo(content, a, PlainTextCdataClose))

\* content.match(/<ac:plain-text-body><!\[CDATA\[([\s\S]*?)\]\]><\/ac:plain-text-body>/i)
\* and const codeContent = cdataMatch ? cdataMatch[1].trim() : ''
CodeContentOf(content) ==
  Trim(CdataBody(content,
         Lit(content, IndexOfFromI(content, PlainTextCdataOpen, 1), PlainTextCdataOpen)))

\* A fallback that drops the macro.
CodeFallbackDropped(macroName) == <<>>

\* `<!-- Confluence ${macroName} macro (content not extracted) -->\n`
CodeFallbackComment(macroName) ==
  <<"<", "!", "-", "-", " ", "Confluence", " ">> \o macroName
    \o <<" ", "macro", " ", "(", "content", " ", "not", " ", "extracted", ")",
         " ", "-", "-", ">", "\n">>

\* if (codeContent) { return `<pre><code ...` } else { return the comment }
CodeBlockOrComment(macroName, language, codeContent) ==
  IF codeContent # <<>>
  THEN <<"<", "pre", ">", "<", "code", " ", "class", "=", "\"", "language-">>
         \o language \o <<"\"", ">">> \o escapeHtml(codeContent)
         \o <<"<", "/", "code", ">", "<", "/", "pre", ">">>
  ELSE CodeFallbackComment(macroName)

\* The replacement function of lines 83-104.
CodeMacroReplacement(macroName, content) ==
  CodeBlockOrComment(macroName, LanguageOf(content), CodeContentOf(content))

\* The replacement of match m of the code macro pattern.
CodeMacroReplace(m) ==
  IF m.end = 0 THEN NoMatch
  ELSE [end |-> m.end, rep |-> CodeMacroReplacement(m.name, m.content)]

\* Lines 81-105.
CodeMacroPass(s) ==
  ReplaceAll(s, [i \in 1..Len(s) |->
                   CodeMacroReplace(MatchNamedMacro(s, i, {<<"code">>, <<"noformat">>}))])

\* The group ([^"]+) that starts at a and the quote that closes it.
GroupAt(s, a) == Group(s, a, Past1(s, a, {"\""}))

\* The group of the first of the matches at the positions js (the group
\* starts at from[j]), <<>> when there is no match.
FirstGroup(s, js, from) ==
  IF {j \in js : GroupAt(s, from[j]).end > 0} = {} THEN <<>>
  ELSE GroupAt(s, from[LeastOr0({j \in js : GroupAt(s, from[j]).end > 0})]).value

\* text.match(/ATTR="([^"]+)"/i): group 1 of the first match, <<>> when none.
AttrValue(text, attr) ==
  FirstGroup(text, 1..Len(text),
             [j \in 1..Len(text) |-> Lit(text, j, <<attr, "=", "\"">>)])

\* content.match(/<ri:attachment\s+ri:filename="([^"]+)"/i): group 1 of the
\* first match, <<>> when there is none.
AttachmentFilename(content) ==
  FirstGroup(content, 1..Len(content),
             [j \in 1..Len(content) |->
                Lit(content, Ws1(content, Lit(content, j, <<"<", "ri:attachment">>)),
                    <<"ri:filename", "=", "\"">>)])

\* `<!-- Confluence Image (could not extract attachment) -->\n`
ImageFallbackComment ==
  <<"<", "!", "-", "-", " ", "Confluence", " ", "Image", " ", "(", "could",
    " ", "not", " ", "extract", " ", "attachment", ")", " ", "-", "-", ">", "\n">>

\* The page id of the download path: the placeholder when none is given.
PageIdOrPlaceholder(pageId) == IF pageId = <<>> THEN <<"PAGE_ID">> ELSE pageId

\* ` NAME="${value}"` when value is not empty (lines 133-134).
OptionalAttr(name, value) ==
  IF value # <<>> THEN <<" ", name, "=", "\"">> \o value \o <<"\"">> ELSE <<>>

\* Lines 119-145: the img tag for the attachment, or the comment.
ImgTagOrComment(width, height, filename, pageId) ==
  IF filename # <<>>
  THEN <<"\n", "<", "img", " ", "src", "=", "\"", "/", "download", "/", "attachments", "/">>
         \o PageIdOrPlaceholder(pageId) \o <<"/">> \o encodeURIComponent(filename)
         \o <<"\"", " ", "alt", "=", "\"">> \o filename \o <<"\"">>
         \o OptionalAttr("width", width) \o OptionalAttr("height", height)
         \o <<" ", "/", ">", "\n">>
  ELSE ImageFallbackComment

\* The replacement function of lines 110-145.
ImageReplacement(match, content, pageId) ==
  ImgTagOrComment(AttrValue(match, "ac:width"), AttrValue(match, "ac:height"),
                  AttachmentFilename(content), pageId)

\* The match of the ac:image pattern at i, g being the position after the
\* opening tag and c where the closing tag starts.
AcImageAt(s, i, g, c, pageId) ==
  IF c = 0 THEN NoMatch
  ELSE [end |-> c + 4,
        rep |-> ImageReplacement(SubSeq(s, i, c + 3), SubSeq(s, g, c - 1), pageId)]

AcImageFrom(s, i, g, pageId) ==
  AcImageAt(s, i, g, LazyTo(s, g, <<"<", "/", "ac:image", ">">>), pageId)

\* /<ac:image[^>]*>([\s\S]*?)<\/ac:image>/gi at position i.
MatchAcImage(s, i, pageId) ==
  AcImageFrom(s, i, Past(s, Lit(s, i, <<"<", "ac:image">>), {">"}), pageId)

\* Lines 108-146.
ImagePass(s, pageId) == ReplaceAll(s, [i \in 1..Len(s) |-> MatchAcImage(s, i, pageId)])

\* ['info', 'warning', 'note', 'tip']
AdmonitionNames == {<<"info">>, <<"warning">>, <<"note">>, <<"tip">>}

\* `<!-- Confluence Macro: ${macroName} -->${content}<!-- End ${macroName} -->`
MacroFallback(macroName, content) ==
  MacroOpen \o macroName \o CommentClose \o content
    \o <<"<", "!", "-", "-", " ", "End", " ">> \o macroName \o CommentClose

\* Lines 154-163.
DivOrFallback(macroName, content, richTextMatch) ==
  IF ToLowerCase(macroName) \in AdmonitionNames /\ richTextMatch.found
  THEN <<"<", "div", " ", "class", "=", "\"", "confluence-macro-">>
         \o ToLowerCase(macroName) \o <<"\"", ">">> \o richTextMatch.body
         \o <<"<", "/", "div", ">">>
  ELSE MacroFallback(macroName, content)

\* The replacement function of lines 151-164.
GenericMacroReplacement(macroName, content) ==
  DivOrFallback(macroName, content, RichTextMatch(content))

\* The replacement of match m of the generic macro pattern.
GenericMacroReplace(m) ==
  IF m.end = 0 THEN NoMatch
  ELSE [end |-> m.end, rep |-> GenericMacroReplacement(m.name, m.content)]

\* Lines 149-166.
GenericMacroPass(s) ==
  ReplaceAll(s, [i \in 1..Len(s) |-> GenericMacroReplace(MatchStructuredMacro(s, i))])

AcLinkOpen == <<"<", "ac:link", ">">>
AcLinkClose == <<"<", "/", "ac:link", ">">>
LinkBodyOpen == <<"<", "ac:plain-text-link-body", ">">>
LinkBodyClose == <<"<", "/", "ac:plain-text-link-body", ">">>
CdataOpen == <<"<", "!", "[", "cdata", "[">>
CdataClose == <<"]", "]", ">">>
SelfClose == <<"/", ">">>
SpaceKeyAttr == <<"ri:space-key", "=", "\"">>
ContentTitleAttr == <<"ri:content-title", "=", "\"">>

NoLink == [end |-> 0, spaceKey |-> <<>>, contentTitle |-> <<>>, linkText |-> <<>>]

\* A target element as matched: the position after it and its attributes.
Target(end, spaceKey, contentTitle) ==
  [end |-> end, spaceKey |-> spaceKey, contentTitle |-> contentTitle]

\* The space target whose key is the group key.
SpaceTargetOf(key) == Target(key.end, key.value, <<>>)

\* <ac:link>\s*<ri:space\s+ri:space-key="([^"]+)" at position i.
SpaceTarget(s, i) ==
  SpaceTargetOf(
    GroupAt(s, Lit(s, Ws1(s, Lit(s, Ws0(s, Lit(s, i, AcLinkOpen)), <<"<", "ri:space">>)),
                   SpaceKeyAttr)))

\* The page target: with the key and the title after it when that matches,
\* otherwise with the title alone.
PageTargetOf(key, titleAfterKey, titleAlone) ==
  IF titleAfterKey.end > 0 THEN Target(titleAfterKey.end, key.value, titleAfterKey.value)
  ELSE Target(titleAlone.end, <<>>, titleAlone.value)

\* (?:ri:space-key="([^"]+)"\s+)?ri:content-title="([^"]+)" from position a,
\* key being the group of the optional part.
PageTitleAfter(s, a, key) ==
  PageTargetOf(key, GroupAt(s, Lit(s, Ws1(s, key.end), ContentTitleAttr)),
               GroupAt(s, Lit(s, a, ContentTitleAttr)))

PageAttributes(s, a) == PageTitleAfter(s, a, GroupAt(s, Lit(s, a, SpaceKeyAttr)))

\* <ac:link>\s*<ri:page\s+(?:ri:space-key="([^"]+)"\s+)?ri:content-title="([^"]+)"
\* at position i.
PageTarget(s, i) ==
  PageAttributes(s, Ws1(s, Lit(s, Ws0(s, Lit(s, i, AcLinkOpen)), <<"<", "ri:page">>)))

\* The space target t with the title group of the legacy pattern when the
\* link has one.
WithOptionalTitle(t, title) ==
  IF title.end > 0 THEN Target(title.end, t.spaceKey, title.value) ELSE t

\* ([^"]*)" from position a: the group, which may be empty.
GroupAt0(s, a) == Group(s, a, Past(s, a, {"\""}))

\* \s*(?:ri:content-title="([^"]*)")? after the space target t (line 1282).
LegacySpaceTarget(s, t) ==
  WithOptionalTitle(Target(Ws0(s, t.end), t.spaceKey, <<>>),
                    GroupAt0(s, Lit(s, Ws0(s, t.end), ContentTitleAttr)))

\* The text x of a lazy group with the position e where the rest of the
\* pattern ends: [end |-> e, text |-> x].
TextTo(s, i, e, closers) ==
  IF e = 0 THEN [end |-> 0, text |-> <<>>]
  ELSE [end |-> LitsFrom(s, e, closers, 1), text |-> SubSeq(s, i, e - 1)]

\* (.*?) from position i followed by the literals closers, \s* between them:
\* the least end of the text for which the rest matches; "." matches no
\* line break.
LazyText(s, i, closers) ==
  IF i = 0 THEN [end |-> 0, text |-> <<>>]
  ELSE TextTo(s, i,
              LeastOr0({e \in i..FirstIn(s, {"\n"}, i) : LitsFrom(s, e, closers, 1) > 0}),
              closers)

\* \s*<ac:plain-text-link-body>\s*<!\[CDATA\[ from position i.
CdataBodyOpen(s, i) == Lit(s, Ws0(s, Lit(s, Ws0(s, i), LinkBodyOpen)), CdataOpen)

\* A tail without a text that ends at e.
EndOnly(e) == [end |-> e, text |-> <<>>]

\* What follows the target element at position p, for each shape of link.
LinkTail(s, p, shape) ==
  CASE shape = "cdata" ->
         LazyText(s, CdataBodyOpen(s, Lit(s, Ws0(s, p), SelfClose)),
                  <<CdataClose, LinkBodyClose, AcLinkClose>>)
    [] shape = "empty" ->
         EndOnly(LitsFrom(s, Ws0(s, p),
                          <<SelfClose, LinkBodyOpen, LinkBodyClose, AcLinkClose>>, 1))
    [] shape = "legacy space" ->
         LazyText(s, CdataBodyOpen(s, Lit(s, Ws0(s, p), <<">">>)),
                  <<CdataClose, LinkBodyClose, <<"<", "/", "ri:space", ">">>, AcLinkClose>>)
    [] shape = "legacy page" ->
         LazyText(s, CdataBodyOpen(s, Lit(s, Ws0(s, p), <<">">>)),
                  <<CdataClose, LinkBodyClose, <<"<", "/", "ri:page", ">">>, AcLinkClose>>)
    [] shape = "minimal" ->
         EndOnly(LitsFrom(s, Ws0(s, p), <<SelfClose, AcLinkClose>>, 1))

\* The match of a link pattern: target t and tail x.
LinkOf(t, x) ==
  IF x.end = 0 THEN NoLink
  ELSE [end |-> x.end, spaceKey |-> t.spaceKey, contentTitle |-> t.contentTitle,
        linkText |-> x.text]

\* The target t followed by the tail of the shape.
LinkWithTarget(s, t, shape) ==
  CHOOSE m \in {LinkOf(v, LinkTail(s, v.end, shape)) : v \in {t}} : TRUE

\* Line 1214: self-closing space link with CDATA.
MatchSpaceCdata(s, i) == LinkWithTarget(s, SpaceTarget(s, i), "cdata")

\* Line 1228: self-closing page link with CDATA.
MatchPageCdata(s, i) == LinkWithTarget(s, PageTarget(s, i), "cdata")

\* Line 1249: self-closing space link with an empty body.
MatchSpaceEmpty(s, i) == LinkWithTarget(s, SpaceTarget(s, i), "empty")

\* Line 1262: self-closing page link with an empty body.
MatchPageEmpty(s, i) == LinkWithTarget(s, PageTarget(s, i), "empty")

\* Line 1282: legacy space link, with the optional ri:content-title="([^"]*)".
MatchSpaceLegacy(s, i) ==
  LinkWithTarget(s, LegacySpaceTarget(s, SpaceTarget(s, i)), "legacy space")

\* Line 1296: legacy page link.
MatchPageLegacy(s, i) == LinkWithTarget(s, PageTarget(s, i), "legacy page")

\* Line 1317: page link with no body.
MatchPageMinimal(s, i) == LinkWithTarget(s, PageTarget(s, i), "minimal")

\* Line 1337: space link with no body.
MatchSpaceMinimal(s, i) == LinkWithTarget(s, SpaceTarget(s, i), "minimal")

\* a || b on strings
OrElse(a, b) == IF a # <<>> THEN a ELSE b

\* `<a href="${href}">${displayText}</a>`
Anchor(href, displayText) ==
  <<"<", "a", " ", "href", "=", "\"">> \o href \o <<"\"", ">">> \o displayText
    \o <<"<", "/", "a", ">">>

\* `/spaces/${spaceKey}`
SpaceHref(spaceKey) == <<"/", "spaces", "/">> \o spaceKey

\* PageHref without the percent-encoding of the title.
PageHrefUnencoded(spaceKey, contentTitle) ==
  IF spaceKey # <<>>
  THEN <<"/", "spaces", "/">> \o spaceKey \o <<"/", "pages", "/">> \o contentTitle
  ELSE <<"/", "pages", "/">> \o contentTitle

\* The if (spaceKey) of lines 1238-1242 and its copies.
PageHref(spaceKey, contentTitle) ==
  IF spaceKey # <<>>
  THEN SpaceHref(spaceKey) \o <<"/", "pages", "/">> \o encodeURIComponent(contentTitle)
  ELSE <<"/", "pages", "/">> \o encodeURIComponent(contentTitle)

\* The Debug message of each pattern of processConfluenceLinks, in the order
\* of the passes.
LinkPatterns ==
  <<"space link with CDATA", "page link with CDATA", "empty space link",
    "empty page link", "legacy space link", "legacy page link",
    "minimal page link", "minimal space link", "unhandled ac:link">>

\* The pattern of pass k at position i.
LinkMatch(k, s, i) ==
  CASE k = 1 -> MatchSpaceCdata(s, i)
    [] k = 2 -> MatchPageCdata(s, i)
    [] k = 3 -> MatchSpaceEmpty(s, i)
    [] k = 4 -> MatchPageEmpty(s, i)
    [] k = 5 -> MatchSpaceLegacy(s, i)
    [] k = 6 -> MatchPageLegacy(s, i)
    [] k = 7 -> MatchPageMinimal(s, i)
    [] k = 8 -> MatchSpaceMinimal(s, i)

\* The replacement function of pass k for match m.
LinkReplacement(k, m) ==
  CASE k = 1 -> Anchor(SpaceHref(m.spaceKey), OrElse(Trim(m.linkText), m.spaceKey))
    [] k = 2 -> Anchor(PageHref(m.spaceKey, m.contentTitle),
                       OrElse(Trim(m.linkText), m.contentTitle))
    [] k = 3 -> Anchor(SpaceHref(m.spaceKey), m.spaceKey)
    [] k = 4 -> Anchor(PageHref(m.spaceKey, m.contentTitle), m.contentTitle)
    [] k = 5 -> Anchor(SpaceHref(m.spaceKey),
                       OrElse(Trim(m.linkText), OrElse(m.contentTitle, m.spaceKey)))
    [] k = 6 -> Anchor(PageHref(m.spaceKey, m.contentTitle),
                       OrElse(Trim(m.linkText), m.contentTitle))
    [] k = 7 -> Anchor(PageHref(m.spaceKey, m.contentTitle), m.contentTitle)
    [] k = 8 -> Anchor(SpaceHref(m.spaceKey), m.spaceKey)

\* /<ac:plain-text-link-body[^>]*>\s*<!\[CDATA\[(.*?)\]\]>\s*<\/ac:plain-text-link-body>/i
\* (cdata) or /<ac:plain-text-link-body[^>]*>(.*?)<\/ac:plain-text-link-body>/i
\* at position j of content.
LinkBodyAt(content, j, cdata) ==
  IF cdata
  THEN LazyText(content,
                Lit(content,
                    Ws0(content, Past(content, Lit(content, j, <<"<", "ac:plain-text-link-body">>),
                                      {">"})),
                    CdataOpen),
                <<CdataClose, LinkBodyClose>>)
  ELSE LazyText(content,
                Past(content, Lit(content, j, <<"<", "ac:plain-text-link-body">>), {">"}),
                <<LinkBodyClose>>)

\* The first of the matches that start at the positions hits.
FirstLinkBody(content, hits, cdata) ==
  IF hits = {} THEN [found |-> FALSE, text |-> <<>>]
  ELSE [found |-> TRUE, text |-> LinkBodyAt(content, LeastOr0(hits), cdata).text]

\* content.match of lines 1359 and 1364.
LinkBodyText(content, cdata) ==
  FirstLinkBody(content, {j \in 1..Len(content) : LinkBodyAt(content, j, cdata).end > 0},
                cdata)

\* Lines 1356-1368: the text of the CDATA body, else of the plain body.
BodyLinkText(cdataMatch, textMatch) ==
  IF cdataMatch.found THEN Trim(cdataMatch.text)
  ELSE IF textMatch.found THEN Trim(textMatch.text) ELSE <<>>

\* content.match(/ATTR="([^"]+)"/): as AttrValue, in the case as written.
AttrValueExact(text, attr) ==
  FirstGroup(text, 1..Len(text),
             [j \in 1..Len(text) |->
                IF HasAt(text, j, <<attr, "=", "\"">>) THEN j + 3 ELSE 0])

\* Lines 1371-1375.
LinkTextOrAttribute(linkText, pageMatch, spaceMatch) ==
  IF linkText # <<>> THEN linkText
  ELSE IF pageMatch # <<>> THEN pageMatch
       ELSE IF spaceMatch # <<>> THEN spaceMatch ELSE <<"Link">>

\* '<!-- Unprocessed Confluence Link -->'
UnprocessedLinkComment ==
  <<"<", "!", "-", "-", " ", "Unprocessed", " ", "Confluence", " ", "Link", " ",
    "-", "-", ">">>

\* The catch-all with an anchor around the text it extracts.
UnhandledLinkAnchored(content) ==
  Anchor(<<"#">>, LinkTextOrAttribute(BodyLinkText(LinkBodyText(content, TRUE),
                                                  LinkBodyText(content, FALSE)),
                                     AttrValueExact(content, "ri:content-title"),
                                     AttrValueExact(content, "ri:space-key")))

\* The replacement function of lines 1352-1378.
UnhandledLinkText(content) ==
  OrElse(LinkTextOrAttribute(BodyLinkText(LinkBodyText(content, TRUE),
                                          LinkBodyText(content, FALSE)),
                             AttrValueExact(content, "ri:content-title"),
                             AttrValueExact(content, "ri:space-key")),
         UnprocessedLinkComment)

\* The match of the catch-all pattern whose content runs from g to c.
UnhandledLinkAt(s, g, c) ==
  IF c = 0 THEN NoMatch
  ELSE [end |-> c + 4, rep |-> UnhandledLinkText(Between(s, g, c))]

\* /<ac:link[^>]*>([\s\S]*?)<\/ac:link>/gi at position i, with its replacement.
MatchUnhandledLink(s, i) ==
  UnhandledLinkAt(s, Past(s, Lit(s, i, <<"<", "ac:link">>), {">"}),
                  LazyTo(s, Past(s, Lit(s, i, <<"<", "ac:link">>), {">"}), AcLinkClose))

\* The match m of pass k with its replacement.
LinkReplace(k, m) ==
  IF m.end = 0 THEN NoMatch ELSE [end |-> m.end, rep |-> LinkReplacement(k, m)]

\* Pass k of processConfluenceLinks over s: for each position the match that
\* starts there, with its replacement.
LinkPassMatches(k, s) ==
  [i \in 1..Len(s) |->
     IF k = 9 THEN MatchUnhandledLink(s, i) ELSE LinkReplace(k, LinkMatch(k, s, i))]

\* The matches m of pass k, each replaced by the Debug message of the pass.
DebugMessages(k, m) ==
  [i \in DOMAIN m |->
     IF m[i].end = 0 THEN NoMatch ELSE [end |-> m[i].end, rep |-> <<LinkPatterns[k]>>]]

\* Pass k over the result r of the passes before it, m being the matches
\* of the pass in r.text.
LinkPassOn(k, r, m) ==
  [text |-> ReplaceAll(r.text, m),
   log |-> r.log \o MatchAll(r.text, DebugMessages(k, m))]

\* The passes k, k + 1, ... over the result r of the passes before them:
\* [text |-> the result, log |-> the Debug messages].
RECURSIVE LinkPasses(_, _)
LinkPasses(k, r) ==
  IF k > Len(LinkPatterns) THEN r
  ELSE CHOOSE out \in {LinkPasses(k + 1, n) :
                         n \in {LinkPassOn(k, r, LinkPassMatches(k, r.text))}} : TRUE

\* Lines 1210-1382: [text |-> the result, log |-> the Debug messages].
LinksProcessed(html) == LinkPasses(1, [text |-> html, log |-> <<>>])

processConfluenceLinks(html) == LinksProcessed(html).text

\* The Debug messages processConfluenceLinks writes for html.
LinksLog(html) == LinksProcessed(html).log

\* Lines 72-173: [text |-> the result, log |-> the Debug messages of the
\* link patterns].
Preprocessed(html, pageId) ==
  Only({LinksProcessed(s4) :
          s4 \in {GenericMacroPass(s3) :
                    s3 \in {ImagePass(s2, pageId) :
                              s2 \in {CodeMacroPass(s1) :
                                        s1 \in {preprocessConfluenceTables(html)}}}}})

preprocessConfluenceHtml(html, pageId) == Preprocessed(html, pageId).text

\* The target element of a link: <ri:page ...> or <ri:space ...>, closed by
\* close ("/>" of the self-closing forms, ">" of the legacy form).
RenderTarget(d, close) ==
  <<"<", IF d.target = "page" THEN "ri:page" ELSE "ri:space">>
    \o (IF d.spaceKey # <<>>
        THEN <<" ", "ri:space-key", "=", "\"">> \o d.spaceKey \o <<"\"">> ELSE <<>>)
    \o (IF d.contentTitle # <<>>
        THEN <<" ", "ri:content-title", "=", "\"">> \o d.contentTitle \o <<"\"">>
        ELSE <<>>)
    \o close

\* <ac:plain-text-link-body><![CDATA[text]]></ac:plain-text-link-body>
RenderCdataBody(text) ==
  LinkBodyOpen \o <<"<", "!", "[", "CDATA", "[">> \o text \o CdataClose \o LinkBodyClose

\* The markup of link d, with gap between its elements: the forms that have
\* a pattern of their own, then an ac:link with an attribute, a page
\* target with the key after the title, a body without CDATA, and a user
\* target.
RenderLink(d, gap) ==
  CASE d.form = "cdata" ->
         AcLinkOpen \o gap \o RenderTarget(d, SelfClose) \o gap
           \o RenderCdataBody(d.linkText) \o gap \o AcLinkClose
    [] d.form = "empty" ->
         AcLinkOpen \o gap \o RenderTarget(d, SelfClose) \o gap
           \o LinkBodyOpen \o LinkBodyClose \o gap \o AcLinkClose
    [] d.form = "legacy" ->
         AcLinkOpen \o gap \o RenderTarget(d, <<">">>) \o gap
           \o RenderCdataBody(d.linkText) \o gap
           \o <<"<", "/", IF d.target = "page" THEN "ri:page" ELSE "ri:space", ">">>
           \o gap \o AcLinkClose
    [] d.form = "minimal" ->
         AcLinkOpen \o gap \o RenderTarget(d, SelfClose) \o gap \o AcLinkClose
    [] d.form = "attributed" ->
         <<"<", "ac:link", " ", "ac:anchor", "=", "\"", "top", "\"", ">">> \o gap
           \o RenderTarget(d, SelfClose) \o gap
           \o RenderCdataBody(d.linkText) \o gap \o AcLinkClose
    [] d.form = "key last" ->
         AcLinkOpen \o gap
           \o <<"<", "ri:page", " ", "ri:content-title", "=", "\"">> \o d.contentTitle
           \o <<"\"", " ", "ri:space-key", "=", "\"">> \o d.spaceKey \o <<"\"">>
           \o SelfClose \o gap
           \o RenderCdataBody(d.linkText) \o gap \o AcLinkClose
    [] d.form = "plain text" ->
         AcLinkOpen \o gap \o RenderTarget(d, SelfClose) \o gap
           \o LinkBodyOpen \o d.linkText \o LinkBodyClose \o gap \o AcLinkClose
    [] d.form = "user" ->
         AcLinkOpen \o gap \o <<"<", "ri:user", " ", "ri:userkey", "=", "\"", "u1", "\"">>
           \o SelfClose \o gap \o AcLinkClose

TargetPage == <<"Target", " ", "Page">>
SeeHere == <<"See", " ", "here">>
DocsKey == <<"DOCS">>

LinkForms == {"cdata", "empty", "legacy", "minimal"}

LinkTexts == {SeeHere, <<>>, <<" ">> \o SeeHere \o <<" ">>}

\* The links of the recognized forms: a page target has a title and may
\* have a space key, a space target has a key, and a title in the legacy
\* form only; the forms with a CDATA body have a text.
LinkDescriptors ==
  {d \in [form : LinkForms, target : {"page", "space"}, spaceKey : {<<>>, DocsKey},
          contentTitle : {<<>>, TargetPage}, linkText : LinkTexts] :
     /\ d.target = "page" => d.contentTitle # <<>>
     /\ d.target = "space" => d.spaceKey # <<>>
     /\ (d.target = "space" /\ d.contentTitle # <<>>) => d.form = "legacy"
     /\ d.form \in {"empty", "minimal"} => d.linkText = <<>>}

MaxLinks == 2

\* The text between two links of a document.
LinkSeparator == <<" ", "and", " ">>

LinkGaps == {<<>>, <<"\n", " ">>}

\* The links that follow the first link of a document.
LinkCompanions ==
  {d \in LinkDescriptors :
     \/ d.form = "cdata" /\ d.target = "page" /\ d.spaceKey = <<>> /\ d.linkText = SeeHere
     \/ d.form = "minimal" /\ d.target = "space"
     \/ d.form = "legacy" /\ d.target = "space" /\ d.contentTitle # <<>> /\ d.linkText = <<>>}

\* A document: a link of any form, then up to MaxLinks - 1 companions.
LinkDocs ==
  [links : UNION {{<<d>> \o c : d \in LinkDescriptors, c \in [1..n -> LinkCompanions]} :
                    n \in 0..(MaxLinks - 1)},
   gap : LinkGaps]

RenderLinks(doc) ==
  JoinWith([k \in 1..Len(doc.links) |-> RenderLink(doc.links[k], doc.gap)], LinkSeparator)

InitLinks ==
  /\ pc = "ready"
  /\ input \in LinkDocs
  /\ output = <<>>
  /\ log = <<>>
  /\ ImgIdle
  /\ CliIdle

\* processedHtml = this.processConfluenceLinks(processedHtml)
ProcessConfluenceLinks ==
  /\ pc = "ready"
  /\ LET r == LinksProcessed(RenderLinks(input))
     IN  output' = <<r.text>> /\ log' = r.log
  /\ pc' = "linked"
  /\ UNCHANGED <<cliVars, input, imgVars>>

NextLinks == ProcessConfluenceLinks

SpecLinks == InitLinks /\ [][NextLinks]_vars

\* The pattern that is written for the form and target of link d.
OwnPattern(d) ==
  CASE d.form = "cdata" /\ d.target = "space" -> "space link with CDATA"
    [] d.form = "cdata" /\ d.target = "page" -> "page link with CDATA"
    [] d.form = "empty" /\ d.target = "space" -> "empty space link"
    [] d.form = "empty" /\ d.target = "page" -> "empty page link"
    [] d.form = "legacy" /\ d.target = "space" -> "legacy space link"
    [] d.form = "legacy" /\ d.target = "page" -> "legacy page link"
    [] d.form = "minimal" /\ d.target = "page" -> "minimal page link"
    [] d.form = "minimal" /\ d.target = "space" -> "minimal space link"

\* A title with each space percent-encoded.
PercentEncoded(title) ==
  Flatten([j \in 1..Len(title) |->
             IF title[j] = " " THEN <<"%", "2", "0">> ELSE <<title[j]>>])

\* H: /pages/<title>, /spaces/<key>/pages/<title> or /spaces/<key>, the
\* title percent-encoded.
ExpectedHref(d) ==
  IF d.target = "space" THEN <<"/", "spaces", "/">> \o d.spaceKey
  ELSE (IF d.spaceKey # <<>> THEN <<"/", "spaces", "/">> \o d.spaceKey ELSE <<>>)
         \o <<"/", "pages", "/">> \o PercentEncoded(d.contentTitle)

\* D: the trimmed CDATA text when it is not empty, otherwise the content
\* title of a page target and the space key of a space target.
ExpectedDisplay(d) ==
  IF Trim(d.linkText) # <<>> THEN Trim(d.linkText)
  ELSE IF d.target = "page" THEN d.contentTitle ELSE d.spaceKey

\* D as the legacy space pattern gives it: with an empty CDATA text, the
\* content title when the link has one.
DisplayWithLegacyTitle(d) ==
  IF Trim(d.linkText) # <<>> THEN Trim(d.linkText)
  ELSE IF d.contentTitle # <<>> THEN d.contentTitle ELSE d.spaceKey

ExpectedAnchor(href, display) ==
  <<"<", "a", " ", "href", "=", "\"">> \o href \o <<"\"", ">">> \o display
    \o <<"<", "/", "a", ">">>

\* Every link of the document is logged by its own pattern, and by no other.
EachByOwnPattern ==
  \A k \in 1..Len(LinkPatterns) :
    Cardinality({j \in 1..Len(log) : log[j] = LinkPatterns[k]})
      = Cardinality({j \in 1..Len(input.links) : OwnPattern(input.links[j]) = LinkPatterns[k]})

\* The scenario: title 'Target Page', CDATA 'See here' or empty.
ScenarioLink(text) ==
  [form |-> "cdata", target |-> "page", spaceKey |-> <<>>,
   contentTitle |-> TargetPage, linkText |-> text]

ScenarioHolds ==
  /\ input.links = <<ScenarioLink(SeeHere)>> =>
       output[1] = <<"<", "a", " ", "href", "=", "\"", "/", "pages", "/", "Target",
                     "%", "2", "0", "Page", "\"", ">", "See", " ", "here",
                     "<", "/", "a", ">">>
  /\ input.links = <<ScenarioLink(<<>>)>> =>
       output[1] = <<"<", "a", " ", "href", "=", "\"", "/", "pages", "/", "Target",
                     "%", "2", "0", "Page", "\"", ">", "Target", " ", "Page",
                     "<", "/", "a", ">">>

RenderBody(body) ==
  CASE body = "none" -> <<>>
    [] body = "text" -> <<"hello">>
    [] body = "param" ->
         <<"<", "ac:parameter", " ", "ac:name", "=", "\"", "language", "\"", ">",
           "js", "<", "/", "ac:parameter", ">">>
    [] body = "blank-cdata" ->
         <<"<", "ac:plain-text-body", ">", "<", "!", "[", "CDATA", "[", " ",
           "]", "]", ">", "<", "/", "ac:plain-text-body", ">">>
    [] body = "cdata" ->
         <<"<", "ac:parameter", " ", "ac:name", "=", "\"", "language", "\"", ">",
           "js", "<", "/", "ac:parameter", ">",
           "<", "ac:plain-text-body", ">", "<", "!", "[", "CDATA", "[", "x", "<", "y",
           "]", "]", ">", "<", "/", "ac:plain-text-body", ">">>
    [] body = "rich" ->
         <<"<", "ac:rich-text-body", ">", "<", "p", ">", "hi", "<", "/", "p", ">",
           "<", "/", "ac:rich-text-body", ">">>
    [] body = "rich-table" ->
         <<"<", "ac:rich-text-body", ">", "<", "table", ">", "<", "tbody", ">",
           "<", "tr", ">", "<", "td", " ", "class", "=", "\"", "confluenceTd", "\"", ">",
           " ", "a", " ", "<", "/", "td", ">", "<", "td", ">", "<", "/", "td", ">",
           "<", "/", "tr", ">", "<", "/", "tbody", ">", "<", "/", "table", ">",
           "<", "/", "ac:rich-text-body", ">">>
    [] body = "url" ->
         <<"<", "ri:url", " ", "ri:value", "=", "\"", "http", ":", "/", "/", "e",
           "/", "x", ".", "png", "\"", " ", "/", ">">>
    [] body = "attachment" ->
         <<"<", "ri:attachment", " ", "ri:filename", "=", "\"", "a", " ", "b", ".",
           "png", "\"", " ", "/", ">">>
    [] body = "attachment-width" ->
         <<"<", "ri:attachment", " ", "ri:filename", "=", "\"", "a", " ", "b", ".",
           "png", "\"", " ", "/", ">">>

\* The markup of span d: an ac:image element or a structured macro.
RenderSpan(d) ==
  IF d.kind = "image"
  THEN <<"<", "ac:image">>
         \o (IF d.body = "attachment-width"
             THEN <<" ", "ac:width", "=", "\"", "100", "\"">> ELSE <<>>)
         \o <<">">> \o RenderBody(d.body) \o <<"<", "/", "ac:image", ">">>
  ELSE StructuredMacroOpen \o <<" ">> \o AcNameAttr \o d.name \o <<"\"", ">">>
         \o RenderBody(d.body) \o StructuredMacroClose

\* The spans of the preprocessor's passes, with and without the content each
\* pass extracts.
SpanDescriptors ==
  [kind : {"code"}, name : {<<"code">>, <<"noformat">>},
   body : {"none", "param", "blank-cdata", "cdata"}]
  \cup [kind : {"image"}, name : {<<"ac:image">>},
        body : {"none", "url", "attachment", "attachment-width"}]
  \cup [kind : {"admonition"}, name : {<<"info">>, <<"warning">>, <<"note">>, <<"tip">>},
        body : {"text", "rich"}]
  \cup [kind : {"admonition"}, name : {<<"info">>, <<"Info">>}, body : {"none", "cdata"}]
  \cup [kind : {"table"}, name : {<<"table">>}, body : {"none", "param", "rich-table"}]
  \cup [kind : {"other"}, name : {<<"toc">>}, body : {"param"}]

\* The content of span d is what its pass extracts.
Extractable(d) ==
  \/ d.kind = "code" /\ d.body = "cdata"
  \/ d.kind = "image" /\ d.body \in {"attachment", "attachment-width"}
  \/ d.kind = "admonition" /\ d.body = "rich"
  \/ d.kind = "table" /\ d.body = "rich-table"

MaxSpans == 2

\* The text between two spans of a document.
SpanSeparator == <<"and">>

PageIds == {<<>>, <<"123456">>}

\* The spans that follow the first span of a document.
SpanCompanions ==
  {d \in SpanDescriptors :
     \/ d.kind = "admonition" /\ d.name = <<"info">> /\ d.body = "text"
     \/ d.kind = "code" /\ d.name = <<"code">> /\ d.body = "param"}

\* A document: a span of any kind, then up to MaxSpans - 1 companions.
SpanDocs ==
  [spans : UNION {{<<d>> \o c : d \in SpanDescriptors, c \in [1..n -> SpanCompanions]} :
                    n \in 0..(MaxSpans - 1)},
   pageId : PageIds]

RenderSpans(doc) ==
  JoinWith([k \in 1..Len(doc.spans) |-> RenderSpan(doc.spans[k])], SpanSeparator)

InitPreprocess ==
  /\ pc = "ready"
  /\ input \in SpanDocs
  /\ output = <<>>
  /\ log = <<>>
  /\ ImgIdle
  /\ CliIdle

\* const processedHtml = this.preprocessConfluenceHtml(html, options.pageId)
PreprocessConfluenceHtml ==
  /\ pc = "ready"
  /\ LET r == Preprocessed(RenderSpans(input), input.pageId)
     IN  output' = <<r.text>> /\ log' = r.log
  /\ pc' = "preprocessed"
  /\ UNCHANGED <<cliVars, input, imgVars>>

NextPreprocess == PreprocessConfluenceHtml

SpecPreprocess == InitPreprocess /\ [][NextPreprocess]_vars

\* The positions of the separators in the output.
SeparatorPositions(s) == {j \in 1..Len(s) : s[j] = SpanSeparator[1]}

\* The part of the output text s that stands for span k of n.
SpanOutput(s, k, n) ==
  LET seps == SeparatorPositions(s)
      nth(m) == CHOOSE j \in seps : Cardinality({i \in seps : i <= j}) = m
      from == IF k = 1 THEN 1 ELSE nth(k - 1) + 1
      to == IF k = n THEN Len(s) ELSE nth(k) - 1
  IN  SubSeq(s, from, to)

\* The number of places where p occurs in s.
Occurrences(s, p) == Cardinality({j \in 1..Len(s) : HasAt(s, j, p)})

\* x is one HTML comment, <!-- ... -->, with nothing but white space after
\* it, and the comment carries the name.
IsSingleCommentWith(x, name) ==
  /\ HasAt(x, 1, <<"<", "!", "-", "-">>)
  /\ Occurrences(x, <<"<", "!", "-", "-">>) = 1
  /\ Occurrences(x, <<"-", "-", ">">>) = 1
  /\ HasAt(Trim(x), Len(Trim(x)) - 2, <<"-", "-", ">">>)
  /\ \E j \in 1..Len(x) : <<LowerSym(x[j])>> = ToLowerCase(name)

\* The name a comment gives to span d: the macro name, Image for ac:image.
CommentName(d) == IF d.kind = "image" THEN <<"image">> ELSE d.name

\* A span that one of the passes recognizes and cannot extract content from.
Unextractable(d) ==
  d.kind \in {"code", "image", "admonition", "table"} /\ ~Extractable(d)

\* x is the content of the span between a begin comment and an end comment
\* that both carry the name.
IsCommentPairAround(x, name, content) ==
  x = <<"<", "!", "-", "-", " ", "Confluence", " ", "Macro", ":", " ">> \o name
        \o <<" ", "-", "-", ">">> \o content
        \o <<"<", "!", "-", "-", " ", "End", " ">> \o name \o <<" ", "-", "-", ">">>

\* C4: every recognized span whose content cannot be extracted comes out of
\* preprocessConfluenceHtml, which does not raise, as a single HTML comment
\* that carries the macro's name; the span is not dropped.
C4_FallbackIsSingleComment ==
  pc = "preprocessed" =>
    /\ Cardinality(SeparatorPositions(output[1])) = Len(input.spans) - 1
    /\ \A k \in 1..Len(input.spans) :
         Unextractable(input.spans[k]) =>
           IsSingleCommentWith(SpanOutput(output[1], k, Len(input.spans)),
                               CommentName(input.spans[k]))

\* C4, amended: a code or noformat macro without CDATA content and an
\* ac:image without an attachment come out as a single comment that carries
\* the name; an info, warning, note, tip or table macro without a rich-text
\* body comes out as its content between the comments
\* <!-- Confluence Macro: NAME --> and <!-- End NAME -->; no span is dropped.
C4_FallbackCommentOrCommentPair ==
  pc = "preprocessed" =>
    /\ Cardinality(SeparatorPositions(output[1])) = Len(input.spans) - 1
    /\ \A k \in 1..Len(input.spans) :
         LET d == input.spans[k]
             x == SpanOutput(output[1], k, Len(input.spans))
         IN  Unextractable(d) =>
               /\ x # <<>>
               /\ d.kind \in {"code", "image"} => IsSingleCommentWith(x, CommentName(d))
               /\ d.kind \in {"admonition", "table"} =>
                    IsCommentPairAround(x, d.name, RenderBody(d.body))

\* A code macro without a CDATA body and an info macro without a rich-text
\* body have been preprocessed in one document.
C4_Witness ==
  /\ pc = "preprocessed"
  /\ Len(input.spans) = 2
  /\ input.spans[1].kind = "code" /\ input.spans[1].body = "param"
  /\ input.spans[2].kind = "admonition" /\ input.spans[2].body = "text"
  /\ Len(output[1]) > 0


(***************************************************************************)
(* Image Pipeline: downloadAndUpdateImages.  The Markdown is a sequence of *)
(* symbols; each await of the function is a step of its own.               *)
(***************************************************************************)

\* A literal of a pattern without the i flag.
LitExact(s, i, p) == IF i > 0 /\ HasAt(s, i, p) THEN i + Len(p) ELSE 0

\* The greatest element of a set of positions, 0 when it is empty.
GreatestOr0(ps) == IF ps = {} THEN 0 ELSE CHOOSE j \in ps : \A k \in ps : j >= k

\* ([^)\s]+) from position u: the position after the URL.
UrlEnd(s, u) ==
  IF u > 0 /\ FirstIn(s, WhiteSpace \cup {")"}, u) > u
  THEN FirstIn(s, WhiteSpace \cup {")"}, u) ELSE 0

\* (?:\s+"[^"]*")?\) from position e: the position after the ")".
CloseParen(s, e) ==
  IF LitExact(s, e, <<")">>) > 0 THEN LitExact(s, e, <<")">>)
  ELSE LitExact(s, Past(s, LitExact(s, Ws1(s, e), <<"\"">>), {"\""}), <<")">>)

\* An element of allImages (lines 598-604 and 612-618); index is
\* originalMatch.index, 1-based.
ImageRecord(type, s, i, e, alt, url) ==
  IF e = 0 THEN NoMatch
  ELSE [end |-> e,
        rep |-> <<[type |-> type, fullMatch |-> SubSeq(s, i, e - 1), alt |-> alt,
                   url |-> url, index |-> i]>>]

\* The match of markdownImageRegex that starts at i: a is the position
\* after the "]", u where the URL starts and ue the position after it.
MarkdownImageWith(s, i, a, u, ue) ==
  ImageRecord("markdown", s, i, CloseParen(s, ue), Between(s, i + 2, a - 1),
              Between(s, u, ue))

\* /!\[([^\]]*)\]\(([^)\s]+)(?:\s+"[^"]*")?\)/g at position i.
MarkdownImageAt(s, i) ==
  MarkdownImageWith(s, i, Past(s, LitExact(s, i, <<"!", "[">>), {"]"}),
    LitExact(s, Past(s, LitExact(s, i, <<"!", "[">>), {"]"}), <<"(">>),
    UrlEnd(s, LitExact(s, Past(s, LitExact(s, i, <<"!", "[">>), {"]"}), <<"(">>)))

Quotes == {"\"", "'"}

\* NAME=["'] at position j: the position after the quote.
AttrOpen(s, j, name) ==
  IF HasAt(s, j, <<name, "=">>) /\ j + 2 <= Len(s) /\ s[j + 2] \in Quotes THEN j + 3 ELSE 0

\* ([^"']+)["'] from position b: the position of the closing quote.
QuotedEnd1(s, b) ==
  IF b > 0 /\ FirstIn(s, Quotes, b) > b /\ FirstIn(s, Quotes, b) <= Len(s)
  THEN FirstIn(s, Quotes, b) ELSE 0

\* ([^"']*)["'] from position b: the position of the closing quote.
QuotedEnd0(s, b) ==
  IF b > 0 /\ FirstIn(s, Quotes, b) <= Len(s) THEN FirstIn(s, Quotes, b) ELSE 0

\* src=["']([^"']+)["'][^>]*> at position j: the position after the ">".
TagEndFromSrc(s, j) ==
  IF QuotedEnd1(s, AttrOpen(s, j, "src")) = 0 THEN 0
  ELSE Past(s, QuotedEnd1(s, AttrOpen(s, j, "src")) + 1, {">"})

\* match[0].match(/alt=["']([^"']*)["']/): group 1 of the first match, ''
\* when there is none (lines 611 and 615).
AltAt(tag, js) ==
  IF js = {} THEN <<>>
  ELSE Between(tag, LeastOr0(js) + 3, QuotedEnd0(tag, LeastOr0(js) + 3))

AltOf(tag) ==
  AltAt(tag, {j \in 1..Len(tag) : QuotedEnd0(tag, AttrOpen(tag, j, "alt")) > 0})

\* The match of htmlImageRegex that starts at i, src= being at j: the
\* greedy [^>]+ before it makes j the last position that gives a match.
HtmlImageWith(s, i, j) ==
  IF j = 0 THEN NoMatch
  ELSE ImageRecord("html", s, i, TagEndFromSrc(s, j),
                   AltOf(Between(s, i, TagEndFromSrc(s, j))),
                   Between(s, j + 3, QuotedEnd1(s, j + 3)))

\* /<img[^>]+src=["']([^"']+)["'][^>]*>/g at position i.
HtmlImageAt(s, i) ==
  IF LitExact(s, i, <<"<", "img">>) = 0 THEN NoMatch
  ELSE HtmlImageWith(s, i,
         GreatestOr0({j \in (i + 3)..FirstIn(s, {">"}, i + 2) : TagEndFromSrc(s, j) > 0}))

\* Lines 593-619: the Markdown images, then the HTML img tags.
DiscoverImages(markdown) ==
  MatchAll(markdown, [i \in 1..Len(markdown) |-> MarkdownImageAt(markdown, i)])
    \o MatchAll(markdown, [i \in 1..Len(markdown) |-> HtmlImageAt(markdown, i)])

\* The symbols of the alphabet that start with 'http'.
HttpWords == {"http", "https"}

\* url.startsWith('http')
StartsWithHttp(url) == Len(url) >= 1 /\ url[1] \in HttpWords

\* The conditions of the three continue statements (lines 632, 637, 643).
IsLocalRelative(url) == StartsWith(url, <<".", "/">>) \/ StartsWith(url, <<".", ".", "/">>)

IsExternal(url, confluenceBaseUrl) ==
  StartsWithHttp(url) /\ ~Includes(url, confluenceBaseUrl)

IsNonAttachment(url) == ~Includes(url, <<"/", "download", "/">>)

Skipped(url, confluenceBaseUrl) ==
  IsLocalRelative(url) \/ IsExternal(url, confluenceBaseUrl) \/ IsNonAttachment(url)

\* Line 649.
FullUrl(url, confluenceBaseUrl) ==
  IF StartsWithHttp(url) THEN url ELSE confluenceBaseUrl \o url

\* Lines 650-652.
SanitizedFilename(url) == sanitizeImageFilename(extractFilenameFromConfluenceUrl(url))

\* Line 654: './images/' + sanitizedFilename
RelativePath(url) == <<".", "/", "images", "/">> \o SanitizedFilename(url)

\* Line 697: `![${alt}](${relativePath})`
MarkdownLink(alt, relativePath) ==
  <<"!", "[">> \o alt \o <<"]", "(">> \o relativePath \o <<")">>

\* fullMatch.replace(/src=["'][^"']+["']/, `src="${relativePath}"`), src=
\* being first matched at j (0: no match).
ReplaceSrcAt(tag, j, relativePath) ==
  IF j = 0 THEN tag
  ELSE SubSeq(tag, 1, j - 1) \o <<"src", "=", "\"">> \o relativePath \o <<"\"">>
         \o SubSeq(tag, QuotedEnd1(tag, j + 3) + 1, Len(tag))

\* Line 701.
UpdatedImgTag(tag, relativePath) ==
  ReplaceSrcAt(tag,
    LeastOr0({j \in 1..Len(tag) : QuotedEnd1(tag, AttrOpen(tag, j, "src")) > 0}),
    relativePath)

\* Lines 695-704: what the reference of image is replaced by.
UpdatedReference(image) ==
  IF image.type = "markdown" THEN MarkdownLink(image.alt, RelativePath(image.url))
  ELSE UpdatedImgTag(image.fullMatch, RelativePath(image.url))

\* The texts of the references of a document, by kind.
ReferenceText(kind) ==
  CASE kind = "attachment" ->
         <<"!", "[", "Screenshot", "]", "(", "/", "download", "/", "attachments", "/",
           "123456", "/", "screenshot", ".", "png", " ", "\"", "Page", " ",
           "Screenshot", "\"", ")">>
    [] kind = "external" ->
         <<"!", "[", "External", "]", "(", "https", ":", "/", "/", "example", ".",
           "com", "/", "image", ".", "png", ")">>
    [] kind = "local" ->
         <<"!", "[", "Local", "]", "(", ".", "/", "local", "-", "image", ".", "png", ")">>
    [] kind = "parent" ->
         <<"!", "[", "Up", "]", "(", ".", ".", "/", "up", ".", "png", ")">>
    [] kind = "tag" ->
         <<"<", "img", " ", "src", "=", "\"", "/", "download", "/", "attachments", "/",
           "123456", "/", "photo", ".", "png", "\"", " ", "alt", "=", "\"", "Photo",
           "\"", ">">>
    [] kind = "icon" ->
         <<"!", "[", "Icon", "]", "(", "/", "images", "/", "icon", ".", "png", ")">>
    [] kind = "absolute" ->
         <<"!", "[", "Abs", "]", "(", "https", ":", "/", "/", "confluence", "/",
           "download", "/", "attachments", "/", "123456", "/", "abs", ".", "png", ")">>
    [] kind = "malformed" ->
         <<"!", "[", "Bad", "]", "(", "/", "download", "/", "attachments", "/",
           "123456", "/", "100", "%", ".", "png", ")">>
    [] kind = "other page" ->
         <<"!", "[", "Other", "]", "(", "/", "download", "/", "attachments", "/",
           "654321", "/", "screenshot", ".", "png", ")">>
    [] kind = "foreign" ->
         <<"!", "[", "Foreign", "]", "(", "https", ":", "/", "/", "example", ".",
           "com", "/", "download", "/", "x", ".", "png", "?", "from", "=", "https", ":",
           "/", "/", "confluence", ")">>

ReferenceKinds ==
  {"attachment", "external", "local", "parent", "tag", "icon", "absolute", "malformed"}

\* The confluenceBaseUrl of the runs.
ConfluenceBaseUrl == <<"https", ":", "/", "/", "confluence">>

MaxRefs == 3

\* A document: up to MaxRefs references, one on each line.
ImageDocs == UNION {[1..n -> ReferenceKinds] : n \in 1..MaxRefs}

RenderMarkdown(doc) == JoinWith([k \in 1..Len(doc) |-> ReferenceText(doc[k])], <<"\n">>)

InitImages ==
  /\ pc = "ready"
  /\ input \in ImageDocs
  /\ output = <<>>
  /\ log = <<>>
  /\ ImgIdle
  /\ CliIdle

\* Lines 576-621: the directory is created and the references are found.
StartDownload ==
  /\ pc = "ready"
  /\ updatedMarkdown' = RenderMarkdown(input)
  /\ downloadCount' = 0
  /\ allImages' = DiscoverImages(RenderMarkdown(input))
  /\ idx' = 1
  /\ pc' = "loop"
  /\ UNCHANGED <<cliVars, input, output, log, files, requests>>

\* Line 580: fs.mkdir rejects, outside any try.
MkdirFails ==
  /\ pc = "ready"
  /\ pc' = "raised"
  /\ UNCHANGED <<cliVars, input, output, log, imgVars>>

\* The image the loop is at.
Image == allImages[idx]

InLoop == pc = "loop" /\ idx <= Len(allImages)

\* The loop goes on to the next image, with a line on the console.
NextImage(event) ==
  /\ pc' = "loop"
  /\ idx' = idx + 1
  /\ log' = Append(log, event)

\* The error leaves the function instead of being caught.
Rethrown(event) ==
  /\ pc' = "raised"
  /\ idx' = idx
  /\ log' = Append(log, event)

\* Lines 708-719: the catch block of the loop body.
Caught(event) == NextImage(event)

\* Lines 632-646: one of the continue statements.
SkipImage ==
  /\ InLoop
  /\ Skipped(Image.url, ConfluenceBaseUrl)
  /\ NextImage("skipped")
  /\ UNCHANGED <<cliVars, input, output, allImages, updatedMarkdown, downloadCount, files, requests>>

\* Line 650: decodeURIComponent throws inside the try.
ExtractFails ==
  /\ InLoop
  /\ ~Skipped(Image.url, ConfluenceBaseUrl)
  /\ ExtractThrows(Image.url)
  /\ Caught("URI malformed")
  /\ UNCHANGED <<cliVars, input, output, allImages, updatedMarkdown, downloadCount, files, requests>>

\* Lines 649-679: axios.get(fullUrl, axiosConfig) is issued.
RequestImage ==
  /\ InLoop
  /\ ~Skipped(Image.url, ConfluenceBaseUrl)
  /\ ~ExtractThrows(Image.url)
  /\ requests' = Append(requests, [image |-> idx, url |-> FullUrl(Image.url, ConfluenceBaseUrl)])
  /\ pc' = "fetching"
  /\ UNCHANGED <<cliVars, input, output, log, allImages, idx, updatedMarkdown, downloadCount, files>>

\* Line 679 resolves; line 687 issues fs.writeFile.
FetchSucceeds ==
  /\ pc = "fetching"
  /\ pc' = "writing"
  /\ UNCHANGED <<cliVars, input, output, log, imgVars>>

\* Line 679 rejects: network error, time-out or a status that is not 2xx.
FetchFails ==
  /\ pc = "fetching"
  /\ Caught("fetch failed")
  /\ UNCHANGED <<cliVars, input, output, allImages, updatedMarkdown, downloadCount, files, requests>>

\* The directory once the file name holds a file that is complete or not.
WithFile(name, complete) ==
  {f \in files : f.name # name} \cup {[name |-> name, complete |-> complete]}

\* Line 687 resolves; line 691 issues fs.stat.
WriteSucceeds ==
  /\ pc = "writing"
  /\ files' = WithFile(SanitizedFilename(Image.url), TRUE)
  /\ pc' = "checking"
  /\ UNCHANGED <<cliVars, input, output, log, allImages, idx, updatedMarkdown, downloadCount, requests>>

\* Line 687 rejects: nothing was written, or a part of the file was.
WriteFails ==
  /\ pc = "writing"
  /\ files' \in {files, WithFile(SanitizedFilename(Image.url), FALSE)}
  /\ Caught("write failed")
  /\ UNCHANGED <<cliVars, input, output, allImages, updatedMarkdown, downloadCount, requests>>

\* Lines 691-706: fs.stat resolves and the reference is rewritten.
UpdateReference ==
  /\ pc = "checking"
  /\ updatedMarkdown' = ReplaceFirst(updatedMarkdown, Image.fullMatch, UpdatedReference(Image))
  /\ downloadCount' = downloadCount + 1
  /\ NextImage("updated")
  /\ UNCHANGED <<cliVars, input, output, allImages, files, requests>>

\* Line 691 rejects.
StatFails ==
  /\ pc = "checking"
  /\ Caught("stat failed")
  /\ UNCHANGED <<cliVars, input, output, allImages, updatedMarkdown, downloadCount, files, requests>>

\* Lines 722-736: the summary, and return updatedMarkdown.
ReturnMarkdown ==
  /\ pc = "loop"
  /\ idx > Len(allImages)
  /\ output' = <<updatedMarkdown>>
  /\ pc' = "done"
  /\ UNCHANGED <<cliVars, input, log, imgVars>>

NextImages ==
  \/ StartDownload
  \/ MkdirFails
  \/ SkipImage
  \/ ExtractFails
  \/ RequestImage
  \/ FetchSucceeds
  \/ FetchFails
  \/ WriteSucceeds
  \/ WriteFails
  \/ UpdateReference
  \/ StatFails
  \/ ReturnMarkdown

SpecImages == InitImages /\ [][NextImages]_vars

\* The positions of the line breaks of a text.
LineBreaks(text) == {j \in 1..Len(text) : text[j] = "\n"}

\* The line a position of the text is on.
LineOfPosition(text, p) == 1 + Cardinality({j \in LineBreaks(text) : j < p})

\* Line r of a text.
LineAt(text, r) ==
  LET on == {j \in 1..Len(text) : text[j] # "\n" /\ LineOfPosition(text, j) = r}
  IN  [k \in 1..Cardinality(on) |->
         text[CHOOSE j \in on : Cardinality({i \in on : i <= j}) = k]]

\* The reference of the document that image k was discovered at.
ReferenceOf(k) == LineOfPosition(RenderMarkdown(input), allImages[k].index)

\* A request has been issued for image k.
Requested(k) == \E n \in 1..Len(requests) : requests[n].image = k

\* The URL is http(s)-absolute.
IsHttpAbsolute(url) ==
  StartsWith(url, <<"http", ":", "/", "/">>) \/ StartsWith(url, <<"https", ":", "/", "/">>)

\* The classification of a URL as one to fetch.
FetchExpected(url) ==
  /\ ~StartsWith(url, <<".", "/">>)
  /\ ~StartsWith(url, <<".", ".", "/">>)
  /\ ~(IsHttpAbsolute(url) /\ ~Includes(url, ConfluenceBaseUrl))
  /\ Includes(url, <<"/", "download", "/">>)

\* Reference r has its input text in the text.
Untouched(text, r) == LineAt(text, r) = ReferenceText(input[r])

Running == pc \in {"loop", "fetching", "writing", "checking", "done"}

\* ![Screenshot](./images/screenshot.png)
ScreenshotLink ==
  <<"!", "[", "Screenshot", "]", "(", ".", "/", "images", "/", "screenshot", ".",
    "png", ")">>

\* C7: an image the loop has dealt with has been requested if and only if
\* its URL does not start with './' or '../', is not an http(s)-absolute
\* URL without the base URL, and contains '/download/'; the references not
\* so classified are returned as they were; one attachment, one external
\* and one local reference give one request and, the download succeeding,
\* one rewrite to ![Screenshot](./images/screenshot.png).
C7_FetchedIffClassified ==
  /\ Running =>
       \A k \in 1..Len(log) : Requested(k) <=> FetchExpected(allImages[k].url)
  /\ pc = "done" =>
       \A k \in 1..Len(allImages) :
         ~FetchExpected(allImages[k].url) => Untouched(output[1], ReferenceOf(k))
  /\ (pc = "done" /\ input = <<"attachment", "external", "local">>) =>
       /\ Len(requests) = 1
       /\ log[1] = "updated" =>
            /\ downloadCount = 1
            /\ output[1] = JoinWith(<<ScreenshotLink, ReferenceText("external"),
                                      ReferenceText("local")>>, <<"\n">>)

\* The console lines of the catch block for a failed fetch, write or check.
DownloadFailures == {"fetch failed", "write failed", "stat failed"}

\* The images whose reference the loop has rewritten.
UpdatedImages == {k \in 1..Len(log) : log[k] = "updated"}

\* C8: a failed fetch, write or file check of an image is caught: the
\* function raises only before the loop; it returns after the loop has
\* dealt with every image, having requested every later candidate whose
\* file name it could extract; and the Markdown it returns has one rewritten
\* reference for each download that succeeded, the others being as they were.
C8_FailureCaughtAndLoopContinues ==
  /\ pc = "raised" => (log = <<>> /\ requests = <<>>)
  /\ Running => Len(log) = idx - 1
  /\ pc = "done" =>
       /\ Len(log) = Len(allImages)
       /\ \A k \in 1..Len(log) :
            log[k] \in DownloadFailures =>
              \A j \in (k + 1)..Len(allImages) :
                (FetchExpected(allImages[j].url) /\ ~ExtractThrows(allImages[j].url))
                  => Requested(j)
       /\ downloadCount = Cardinality(UpdatedImages)
       /\ Cardinality({r \in 1..Len(input) : ~Untouched(output[1], r)})
            = Cardinality(UpdatedImages)
       /\ \A r \in 1..Len(input) :
            ~Untouched(output[1], r) =>
              \E k \in UpdatedImages : LineAt(output[1], r) = UpdatedReference(allImages[k])

\* A fetch has failed, then a write or a file check, then a download has
\* succeeded, and the function has returned.
C8_Witness ==
  /\ pc = "done"
  /\ \E i, j, k \in 1..Len(log) :
       /\ i < j /\ j < k
       /\ log[i] = "fetch failed"
       /\ log[j] \in {"write failed", "stat failed"}
       /\ log[k] = "updated"

\* C9: at every point a reference is rewritten only if the loop has fetched
\* and written the file of that reference and then rewritten it; a reference
\* whose fetch or write failed has its original text in the returned
\* Markdown.
C9_RewrittenOnlyAfterOwnDownload ==
  /\ Running =>
       \A r \in 1..Len(input) :
         ~Untouched(updatedMarkdown, r) =>
           \E k \in UpdatedImages : ReferenceOf(k) = r
  /\ pc = "done" =>
       \A k \in 1..Len(log) :
         log[k] \in {"fetch failed", "write failed"} => Untouched(output[1], ReferenceOf(k))

(***************************************************************************)
(* processConfluenceLinks on the links that no pattern of their own        *)
(* matches: the catch-all of lines 1350-1379.                              *)
(***************************************************************************)

VariantForms == {"attributed", "key last", "plain text", "user"}

\* The links left to the catch-all.
VariantDescriptors ==
  {d \in [form : VariantForms, target : {"page", "space", "user"},
          spaceKey : {<<>>, DocsKey}, contentTitle : {<<>>, TargetPage},
          linkText : LinkTexts] :
     /\ d.target = "page" => d.contentTitle # <<>>
     /\ d.target = "space" => d.spaceKey # <<>> /\ d.contentTitle = <<>>
     /\ d.form = "key last" => d.target = "page" /\ d.spaceKey # <<>>
     /\ d.form = "plain text" => Trim(d.linkText) # <<>>
     /\ d.form = "user" <=> d.target = "user"
     /\ d.target = "user" => d.spaceKey = <<>> /\ d.contentTitle = <<>> /\ d.linkText = <<>>}

\* The links that follow the first link of a document: one of them has a
\* pattern of its own.
VariantCompanions ==
  {d \in VariantDescriptors :
     \/ d.form = "user"
     \/ d.form = "key last" /\ d.linkText = SeeHere
     \/ d.form = "attributed" /\ d.target = "space" /\ d.linkText = <<>>}
    \cup {ScenarioLink(SeeHere)}

VariantDocs ==
  [links : UNION {{<<d>> \o c : d \in VariantDescriptors, c \in [1..n -> VariantCompanions]} :
                    n \in 0..(MaxLinks - 1)},
   gap : LinkGaps]

InitLinkVariants ==
  /\ pc = "ready"
  /\ input \in VariantDocs
  /\ output = <<>>
  /\ log = <<>>
  /\ ImgIdle
  /\ CliIdle

SpecLinkVariants == InitLinkVariants /\ [][NextLinks]_vars

AnchorOpen == <<"<", "a", " ", "href", "=", "\"">>

\* What link d holds for the catch-all to extract.
CdataTextOf(d) == IF d.form \in {"attributed", "key last"} THEN Trim(d.linkText) ELSE <<>>

PlainTextOf(d) == IF d.form = "plain text" THEN Trim(d.linkText) ELSE <<>>

\* The first non-empty of the CDATA body, the plain-text body, the content
\* title and the space key of link d, otherwise nothing.
Extracted(d) ==
  OrElse(CdataTextOf(d), OrElse(PlainTextOf(d), OrElse(d.contentTitle, d.spaceKey)))

\* The anchor of a link that has a pattern of its own; for any other link
\* what is extracted from it, and last when that is nothing.
ExpectedReplacement(d, last) ==
  IF d.form \in LinkForms
  THEN ExpectedAnchor(ExpectedHref(d), DisplayWithLegacyTitle(d))
  ELSE OrElse(Extracted(d), last)

\* The output with last in the place of each link that holds nothing.
ExpectedLinksOutput(last) ==
  JoinWith([k \in 1..Len(input.links) |-> ExpectedReplacement(input.links[k], last)],
           LinkSeparator)

RecognizedLinks == {k \in 1..Len(input.links) : input.links[k].form \in LinkForms}

\* C11: after the link pass every ac:link of the input, whatever its
\* variant, has become an anchor element: the output has one anchor for each
\* link and no ac:link element.
C11_EveryLinkBecomesAnchor ==
  pc = "linked" =>
    /\ Occurrences(output[1], AnchorOpen) = Len(input.links)
    /\ ~Includes(output[1], <<"<", "ac:link">>)

\* C11, amended: after the link pass no ac:link element is left; a link of a
\* form that has a pattern of its own has become an anchor, and a link of
\* any other variant (an ac:link with an attribute, a page target with the
\* key after the title, a body without CDATA, a user target) has been
\* reduced by the catch-all to a text without an anchor.
C11_AnchorsForOwnPatternsTextForOthers ==
  pc = "linked" =>
    /\ ~Includes(output[1], <<"<", "ac:link">>)
    /\ Occurrences(output[1], AnchorOpen) = Cardinality(RecognizedLinks)
    /\ output[1] = ExpectedLinksOutput(<<"Link">>)
    /\ \A k \in 1..Len(input.links) :
         k \notin RecognizedLinks =>
           ~Includes(ExpectedReplacement(input.links[k], <<"Link">>), AnchorOpen)

\* An ac:link with an attribute or a page target with the key after the
\* title has been rewritten next to a link that has a pattern of its own.
C11_Witness ==
  /\ pc = "linked"
  /\ Len(input.links) = 2
  /\ input.links[1].form \in {"attributed", "key last"}
  /\ input.links[1].target = "page"
  /\ input.links[2] = ScenarioLink(SeeHere)
  /\ Includes(output[1], AnchorOpen)

\* C12: a link handled by the catch-all is replaced by the first non-empty
\* of its trimmed CDATA body, its plain-text body, its content title and its
\* space key, and by the comment '<!-- Unprocessed Confluence Link -->' when
\* none of them can be extracted.
C12_CatchAllChainEndsInComment ==
  pc = "linked" => output[1] = ExpectedLinksOutput(UnprocessedLinkComment)

(***************************************************************************)
(* convertToMarkdown on a macro: the preprocessor, then the rules of       *)
(* applyCustomRules on the element the preprocessor leaves.                *)
(***************************************************************************)

\* The character references the HTML parser resolves in the text of the
\* document handed to service.turndown, at position i.
CharacterReferenceAt(s, i) ==
  IF HasAt(s, i, <<"&", "amp", ";">>) THEN [end |-> i + 3, rep |-> <<"&">>]
  ELSE IF HasAt(s, i, <<"&", "lt", ";">>) THEN [end |-> i + 3, rep |-> <<"<">>]
  ELSE IF HasAt(s, i, <<"&", "gt", ";">>) THEN [end |-> i + 3, rep |-> <<">">>]
  ELSE IF HasAt(s, i, <<"&", "quot", ";">>) THEN [end |-> i + 3, rep |-> <<"\"">>]
  ELSE IF HasAt(s, i, <<"&", "#", "039", ";">>) THEN [end |-> i + 4, rep |-> <<"'">>]
  ELSE NoMatch

\* The text content of an element whose markup is s.
TextContent(s) == ReplaceAll(s, [i \in 1..Len(s) |-> CharacterReferenceAt(s, i)])

\* The fence of lines 21 and 30, three backquotes, as one symbol (a string
\* of TLA+ holds no backquote).
Fence == <<"(fence)">>

\* The replacement of the codeBlock rule (lines 484-488) for a code element
\* with class className and text content.
CodeBlock(className, content) ==
  <<"\n">> \o Fence \o ReplaceFirst(className, <<"language-">>, <<>>) \o <<"\n">>
    \o content \o <<"\n">> \o Fence \o <<"\n">>

\* <pre><code class="C">T</code></pre> that opens at i, q being the position
\* after the quote that closes C and e the position of </code></pre>.
PreCodeFrom(s, a, q, e) ==
  IF q = 0 \/ e = 0 THEN NoMatch
  ELSE [end |-> e + 8,
        rep |-> CodeBlock(Between(s, a, q - 1), TextContent(Between(s, q + 1, e)))]

PreCodeWith(s, a, q) ==
  PreCodeFrom(s, a, q,
              LazyTo(s, Lit(s, q, <<">">>), <<"<", "/", "code", ">", "<", "/", "pre", ">">>))

\* The filter of the codeBlock rule (lines 481-483) at position i: a PRE
\* whose first child is a CODE.
PreCodeAt(s, i) ==
  IF Lit(s, i, <<"<", "pre", ">", "<", "code", " ", "class", "=", "\"">>) = 0 THEN NoMatch
  ELSE PreCodeWith(s, i + 9, Past(s, i + 9, {"\""}))

\* The class names of an element: the words of its class attribute.
ClassList(className) ==
  {SubSeq(className, a, b) : a \in 1..Len(className), b \in 1..Len(className)}
    \ {w \in {SubSeq(className, a, b) : a \in 1..Len(className), b \in 1..Len(className)} :
         \/ w = <<>>
         \/ \E k \in 1..Len(w) : w[k] \in WhiteSpace}

\* The filter of the confluenceMacro rule (lines 373-376).
ConfluenceMacroFilter(nodeName, className) ==
  \/ nodeName = "AC:STRUCTURED-MACRO"
  \/ <<"confluence-macro">> \in ClassList(className)

\* The replacement of the confluenceMacro rule (lines 377-386) for an
\* element without an ac:name attribute.
ConfluenceMacro(content) ==
  <<"\n">> \o MacroOpen \o <<"unknown">> \o CommentClose \o <<"\n">> \o content \o <<"\n">>

\* <p>T</p> at position i: a paragraph, T between blank lines.
ParagraphAt(s, i) ==
  IF Lit(s, i, <<"<", "p", ">">>) = 0 \/ LazyTo(s, i + 3, <<"<", "/", "p", ">">>) = 0
  THEN NoMatch
  ELSE [end |-> LazyTo(s, i + 3, <<"<", "/", "p", ">">>) + 4,
        rep |-> <<"\n", "\n">>
                  \o TextContent(Between(s, i + 3, LazyTo(s, i + 3, <<"<", "/", "p", ">">>)))
                  \o <<"\n", "\n">>]

\* The Markdown of the children of a block.
Blocks(s) == ReplaceAll(s, [i \in 1..Len(s) |-> ParagraphAt(s, i)])

\* A div with class className: the confluenceMacro rule when its filter
\* takes the element, otherwise a block between blank lines.
DivBlock(className, content) ==
  IF ConfluenceMacroFilter("DIV", className) THEN ConfluenceMacro(content)
  ELSE <<"\n", "\n">> \o content \o <<"\n", "\n">>

\* <div class="C">T</div> that opens at i, q being the position after the
\* quote that closes C and e the position of </div>.
DivFrom(s, a, q, e) ==
  IF q = 0 \/ e = 0 THEN NoMatch
  ELSE [end |-> e + 4,
        rep |-> DivBlock(Between(s, a, q - 1), Blocks(Between(s, q + 1, e)))]

DivAt(s, i) ==
  IF Lit(s, i, <<"<", "div", " ", "class", "=", "\"">>) = 0 THEN NoMatch
  ELSE DivFrom(s, i + 6, Past(s, i + 6, {"\""}),
               LazyTo(s, Lit(s, Past(s, i + 6, {"\""}), <<">">>), <<"<", "/", "div", ">">>))

\* `<!-- Confluence Attachment: ${filename} -->`
AttachmentComment(filename) ==
  <<"<", "!", "-", "-", " ", "Confluence", " ", "Attachment", ":", " ">> \o filename
    \o CommentClose

\* `![${alt}](${src})`
MarkdownImage(alt, src) == <<"!", "[">> \o alt \o <<"]", "(">> \o src \o <<")">>

\* `<!-- Image attributes: ... -->` of lines 511-518 for width and height.
ImageAttributes(width, height) ==
  <<"<", "!", "-", "-", " ", "Image", " ", "attributes", ":", " ">>
    \o OptionalAttr("width", width)
    \o (IF width # <<>> /\ height # <<>> THEN <<",">> ELSE <<>>)
    \o OptionalAttr("height", height) \o CommentClose

\* The replacement of the confluenceImage rule (lines 494-524) for an img
\* without title and border.
confluenceImage(alt, src, width, height) ==
  IF \/ Includes(src, <<"/", "download", "/", "attachments", "/">>)
     \/ Includes(src, <<"/", "download", "/", "thumbnails", "/">>)
  THEN <<"\n">> \o MarkdownImage(alt, src) \o <<"\n">>
         \o AttachmentComment(extractFilenameFromConfluenceUrl(src)) \o <<"\n">>
  ELSE IF width # <<>> \/ height # <<>>
       THEN <<"\n">> \o MarkdownImage(alt, src) \o <<"\n">>
              \o ImageAttributes(width, height) \o <<"\n">>
       ELSE <<"\n">> \o MarkdownImage(alt, src) \o <<"\n">>

\* The img tag that opens at i and closes before position e.
ImgFrom(tag, e) ==
  IF e = 0 THEN NoMatch
  ELSE [end |-> e,
        rep |-> confluenceImage(TextContent(AttrValue(tag, "alt")),
                                TextContent(AttrValue(tag, "src")),
                                AttrValue(tag, "width"), AttrValue(tag, "height"))]

ImgAt(s, i) ==
  IF Lit(s, i, <<"<", "img", " ">>) = 0 THEN NoMatch
  ELSE ImgFrom(Between(s, i, Past(s, i, {">"})), Past(s, i, {">"}))

\* The rule that takes the element at position i.
ElementWith(pre, div) == IF pre.end > 0 THEN pre ELSE div

ElementAt(s, i) == ElementWith(PreCodeAt(s, i), ElementWith(DivAt(s, i), ImgAt(s, i)))

\* What turndown removes at both ends of its result.
TrimResult(s) == SubSeq(s, RunEnd(s, {"\n", "\t"}, 1), Len(Trim(<<"x">> \o s)) - 1)

\* service.turndown(processedHtml) of line 66, for a document of code
\* blocks, divs and text.
turndown(html) == TrimResult(ReplaceAll(html, [i \in 1..Len(html) |-> ElementAt(html, i)]))

\* convertToMarkdown, lines 60-67.
convertToMarkdown(html, pageId) ==
  Only({turndown(p) : p \in {preprocessConfluenceHtml(html, pageId)}})

PrintHi == <<"print", "(", "\"", "hi", "\"", ")">>

\* The bodies of the code macros: the scenario's, one with white space
\* around it, some with the characters escapeHtml replaces.
CodeBodies ==
  {PrintHi,
   <<" ", " ", "x", "=", "1", "\n">>,
   <<"a", "&", "b", "<", "c", ">", "'", "d", "'">>,
   <<"&", "lt", ";">>,
   <<"<", "td", ">", " ", "x", " ", "<", "/", "td", ">">>}

CodeLanguages == {<<>>, <<"python">>, <<"js">>}

CodeMacros ==
  [kind : {"code"}, name : {<<"code">>, <<"noformat">>}, language : CodeLanguages,
   body : CodeBodies, pageId : PageIds]

\* The rich-text bodies of the admonition macros.
RichBodies ==
  {<<"<", "p", ">", "hi", "<", "/", "p", ">">>,
   <<"<", "p", ">", "a", "&", "amp", ";", "b", "<", "/", "p", ">">>,
   <<"<", "p", ">", "hi", "<", "/", "p", ">", "<", "p", ">", "there", "<", "/", "p", ">">>,
   <<"hello">>}

AdmonitionMacros ==
  [kind : {"admonition"},
   name : {<<"info">>, <<"warning">>, <<"note">>, <<"tip">>, <<"Info">>, <<"Tip">>},
   language : {<<>>}, body : RichBodies, pageId : PageIds]

\* The file names of the attachments.
AttachmentNames == {<<"x", ".", "png">>, <<"a", " ", "b", ".", "png">>}

\* An ac:image macro for an attachment of the page, and an img element
\* whose src is a download path of Confluence.
ImageMacros ==
  [kind : {"image"}, filename : AttachmentNames, width : {<<>>, <<"100">>}, pageId : PageIds]

ImgElements ==
  [kind : {"img"}, folder : {"attachments", "thumbnails"}, filename : AttachmentNames,
   query : {<<>>, <<"?", "version", "=", "1">>}, pageId : {<<"123456">>}]

\* The src of img element d.
ImgSrc(d) ==
  <<"/", "download", "/", d.folder, "/">> \o d.pageId \o <<"/">>
    \o encodeURIComponent(d.filename) \o d.query

\* The markup of macro d: a code macro with its CDATA body, an admonition
\* with its rich-text body, an ac:image with its attachment, an img element.
RenderMacro(d) ==
  IF d.kind = "image"
  THEN <<"<", "ac:image">> \o OptionalAttr("ac:width", d.width) \o <<">">>
         \o <<"<", "ri:attachment", " ", "ri:filename", "=", "\"">> \o d.filename
         \o <<"\"", " ", "/", ">", "<", "/", "ac:image", ">">>
  ELSE IF d.kind = "img"
  THEN <<"<", "img", " ", "src", "=", "\"">> \o ImgSrc(d)
         \o <<"\"", " ", "alt", "=", "\"", "pic", "\"", ">">>
  ELSE
  StructuredMacroOpen \o <<" ">> \o AcNameAttr \o d.name \o <<"\"", ">">>
    \o (IF d.language = <<>> THEN <<>>
        ELSE <<"<", "ac:parameter", " ", "ac:name", "=", "\"", "language", "\"", ">">>
               \o d.language \o <<"<", "/", "ac:parameter", ">">>)
    \o (IF d.kind = "code"
        THEN <<"<", "ac:plain-text-body", ">", "<", "!", "[", "CDATA", "[">> \o d.body
               \o <<"]", "]", ">", "<", "/", "ac:plain-text-body", ">">>
        ELSE RichTextOpen \o d.body \o RichTextClose)
    \o StructuredMacroClose

InitConvert ==
  /\ pc = "ready"
  /\ input \in CodeMacros \cup AdmonitionMacros \cup ImageMacros \cup ImgElements
  /\ output = <<>>
  /\ log = <<>>
  /\ ImgIdle
  /\ CliIdle

\* convertToMarkdown(html, { pageId })
ConvertToMarkdown ==
  /\ pc = "ready"
  /\ output' = <<convertToMarkdown(RenderMacro(input), input.pageId)>>
  /\ pc' = "converted"
  /\ UNCHANGED <<cliVars, input, log, imgVars>>

NextConvert == ConvertToMarkdown

SpecConvert == InitConvert /\ [][NextConvert]_vars

\* The fenced block of language L and body B.
FencedBlock(language, body) ==
  Fence \o language \o <<"\n">> \o body \o <<"\n">> \o Fence

\* C13: a code or noformat macro with language L and a CDATA body B that is
\* not blank is emitted as the opening fence followed by L, then B literally
\* and unchanged, white space at its ends included, then the closing fence.
C13_CodeBodyLiteral ==
  (pc = "converted" /\ input.kind = "code") =>
    output[1] = FencedBlock(input.language, input.body)

\* As C13 for the bodies that have no white space at their ends and no
\* table cell.
CodeBodyLiteralWhenPlain ==
  (pc = "converted" /\ input.kind = "code" /\ input.body = Trim(input.body)
     /\ ~Includes(input.body, <<"<", "td">>))
    => output[1] = FencedBlock(input.language, input.body)

\* C15: for an info, warning, note or tip macro with a rich-text body the
\* div the preprocessor leaves is taken by the confluenceMacro rule and is
\* emitted as a block with an HTML comment labelled with the macro's name.
C15_AdmonitionDivInLabelledComment ==
  (pc = "converted" /\ input.kind = "admonition") =>
    Includes(output[1], MacroOpen \o ToLowerCase(input.name) \o CommentClose)

\* What is emitted for the admonition: the text of its body, no comment.
AdmonitionBodyOnly ==
  (pc = "converted" /\ input.kind = "admonition") =>
    /\ ~Includes(output[1], CommentOpen)
    /\ input.body = <<"<", "p", ">", "hi", "<", "/", "p", ">">> => output[1] = <<"hi">>

\* The Markdown image with the comment that names file.
ImageWithAttachment(alt, src, file) ==
  MarkdownImage(alt, src) \o <<"\n">> \o AttachmentComment(file)

\* The alt text and the src of the img of input d.
ImgAltOf(d) == IF d.kind = "img" THEN <<"pic">> ELSE d.filename

ImgSrcOf(d) ==
  IF d.kind = "img" THEN ImgSrc(d)
  ELSE <<"/", "download", "/", "attachments", "/">>
         \o (IF d.pageId = <<>> THEN <<"PAGE_ID">> ELSE d.pageId)
         \o <<"/">> \o PercentEncoded(d.filename)

\* C20: for every img whose src holds /download/attachments/ or
\* /download/thumbnails/ the image rule emits the Markdown image and then
\* the comment '<!-- Confluence Attachment: F -->', F being the decoded
\* file name of the attachment; also for the img made from an ac:image
\* macro when no page id was given and the placeholder is in the path.
C20_AttachmentCommentNamesFile ==
  (pc = "converted" /\ input.kind \in {"image", "img"}) =>
    output[1] = ImageWithAttachment(ImgAltOf(input), ImgSrcOf(input), input.filename)

\* The comment names the file when the path holds a numeric page id, and
\* 'unknown' when it holds the placeholder.
AttachmentCommentUnknownForPlaceholder ==
  (pc = "converted" /\ input.kind \in {"image", "img"}) =>
    output[1] = ImageWithAttachment(ImgAltOf(input), ImgSrcOf(input),
                                    IF input.pageId = <<>> THEN Unknown ELSE input.filename)

(***************************************************************************)
(* convertToWikiJsMarkdown on the paired macro comments.                   *)
(***************************************************************************)

\* '> **Info**' and the lines x and y, each after '> '.
InfoBlockquote ==
  <<">", " ", "*", "*", "Info", "*", "*", "\n", ">", " ", "x", "\n", ">", " ", "y">>

\* C14: the paired block '<!-- Confluence Macro: Info -->', newline, the
\* body lines x and y, newline, '<!-- End Info -->' is turned into the line
\* '> **Info**' followed by each body line after '> ', alone and after a
\* line of text.
C14_MacroBlockToBlockquote ==
  pc = "converted" =>
    /\ input = FragMacroBlock => output[1] = InfoBlockquote
    /\ input = FragText \o FragNewline \o FragMacroBlock =>
         output[1] = FragText \o FragNewline \o InfoBlockquote

\* What the adapter returns for the paired block: its body lines alone.
MacroBlockLeavesBody ==
  (pc = "converted" /\ input = FragMacroBlock) => output[1] = <<"x", "\n", "y">>

(***************************************************************************)
(* preprocessConfluenceTables on table cells: a document is one or two     *)
(* cells [tag, attrs, text], attrs being the text between the tag name and *)
(* '>' and text the content of the cell.                                   *)
(***************************************************************************)
CellAttrs ==
  {<<>>,
   <<" ", "style", "=", "\"", "x", "\"">>,
   <<" ", "class", "=", "\"", "confluenceTd", "\"">>}

\* Contents of white space only, and contents with text.
BlankTexts == {<<>>, <<" ">>, <<"\n", " ">>}

CellTexts == BlankTexts \cup {<<"d">>, <<" ", "d", " ">>}

Cells == [tag : CellTags, attrs : CellAttrs, text : CellTexts]

MaxCells == 2

CellDocs == UNION {[1..n -> Cells] : n \in 1..MaxCells}

RenderCell(c) ==
  <<"<", c.tag>> \o c.attrs \o <<">">> \o c.text \o <<"<", "/", c.tag, ">">>

RenderCells(doc) == Flatten([k \in 1..Len(doc) |-> RenderCell(doc[k])])

InitCells ==
  /\ pc = "ready"
  /\ input \in CellDocs
  /\ output = <<>>
  /\ log = <<>>
  /\ ImgIdle
  /\ CliIdle

PreprocessTables ==
  /\ pc = "ready"
  /\ output' = <<preprocessConfluenceTables(RenderCells(input))>>
  /\ pc' = "tabled"
  /\ UNCHANGED <<cliVars, input, log, imgVars>>

NextCells == PreprocessTables

SpecCells == InitCells /\ [][NextCells]_vars

\* The attributes the cell keeps: a class of confluenceTd or confluenceTh
\* goes, every other attribute stays.
KeptAttrs(attrs) == IF Includes(attrs, <<"class">>) THEN <<" ">> ELSE attrs

\* A cell with the kept attributes of c and the content text.
CellWith(c, text) ==
  <<"<", c.tag>> \o KeptAttrs(c.attrs) \o <<">">> \o text \o <<"<", "/", c.tag, ">">>

\* C18: when preprocessConfluenceTables returns, every th or td that was
\* empty or white space only in the input contains exactly one space (the
\* padding of the empty-cell step is still there after the trimming step),
\* and its attributes are unchanged.
C18_EmptyCellsKeepOneSpace ==
  pc = "tabled" =>
    output[1] = Flatten([k \in 1..Len(input) |->
                           CellWith(input[k], IF input[k].text \in BlankTexts THEN <<" ">>
                                              ELSE Trim(input[k].text))])

\* What the cells are when the function returns: the trimming step takes
\* the padding away again, an empty cell is left without content.
EmptyCellsLeftEmpty ==
  pc = "tabled" =>
    output[1] = Flatten([k \in 1..Len(input) |-> CellWith(input[k], Trim(input[k].text))])

(***************************************************************************)
(* preprocessConfluenceHtml run on its own result: a document is a span,   *)
(* alone or inside the rich-text body of an outer structured macro.        *)
(***************************************************************************)
OuterNames == {<<>>, <<"panel">>, <<"info">>}

\* The link of the scenario as a span.
LinkSpan == [kind |-> "link", name |-> <<"ac:link">>, body |-> "none"]

NestedDocs ==
  [outer : OuterNames, inner : SpanDescriptors \cup {LinkSpan}, pageId : PageIds]

RenderInner(d) ==
  IF d.kind = "link" THEN RenderLink(ScenarioLink(SeeHere), <<>>) ELSE RenderSpan(d)

\* The markup of document doc; an outer name <<>> stands for no outer macro.
RenderNested(doc) ==
  IF doc.outer = <<>> THEN RenderInner(doc.inner)
  ELSE StructuredMacroOpen \o <<" ">> \o AcNameAttr \o doc.outer \o <<"\"", ">">>
         \o RichTextOpen \o RenderInner(doc.inner) \o RichTextClose \o StructuredMacroClose

InitRerun ==
  /\ pc = "ready"
  /\ input \in NestedDocs
  /\ output = <<>>
  /\ log = <<>>
  /\ ImgIdle
  /\ CliIdle

\* preprocessConfluenceHtml(x, p)
PreprocessOnce ==
  /\ pc = "ready"
  /\ output' = <<preprocessConfluenceHtml(RenderNested(input), input.pageId)>>
  /\ pc' = "preprocessed"
  /\ UNCHANGED <<cliVars, input, log, imgVars>>

\* preprocessConfluenceHtml(preprocessConfluenceHtml(x, p), p)
PreprocessAgain ==
  /\ pc = "preprocessed"
  /\ output' = output \o <<preprocessConfluenceHtml(output[1], input.pageId)>>
  /\ pc' = "repreprocessed"
  /\ UNCHANGED <<cliVars, input, log, imgVars>>

NextRerun == PreprocessOnce \/ PreprocessAgain

SpecRerun == InitRerun /\ [][NextRerun]_vars

\* An opening tag of a structured macro, an ac:image or an ac:link in s.
HasConfluenceElement(s) ==
  \/ Includes(s, StructuredMacroOpen)
  \/ Includes(s, <<"<", "ac:image">>)
  \/ Includes(s, AcLinkOpen)

\* The document holds a macro of the generic pass inside a macro of the
\* generic pass.
GenericInGeneric(doc) ==
  /\ doc.outer # <<>>
  /\ \/ doc.inner.kind \in {"admonition", "other"}
     \/ doc.inner.kind = "table" /\ ~Extractable(doc.inner)

\* C19: the preprocessor is idempotent, also on structured macros nested in
\* other structured macros: a second run returns the result of the first,
\* and the first leaves no structured macro, ac:image or ac:link to rewrite.
C19_PreprocessorIdempotent ==
  /\ pc = "repreprocessed" => output[2] = output[1]
  /\ pc = "preprocessed" => ~HasConfluenceElement(output[1])

\* A second run changes nothing unless a macro of the generic pass sits in
\* another one; then the first run leaves the inner macro's opening tag and
\* the outer macro's closing tag, and the second run rewrites them.
IdempotentUnlessGenericNested ==
  pc = "repreprocessed" =>
    /\ ~GenericInGeneric(input) => output[2] = output[1] /\ ~HasConfluenceElement(output[1])
    /\ GenericInGeneric(input) => output[2] # output[1] /\ HasConfluenceElement(output[1])

(***************************************************************************)
(* HTML-table-preservation mode: the preserveHtmlTable rule of             *)
(* applyHtmlTableRules with cleanTableHtml and convertConfluenceHighlights.*)
(***************************************************************************)

\* The position of the first NAME=" in text, as written (0: none).
AttrStart(text, name) == IndexOfFrom(text, <<name, "=", "\"">>, 1)

\* The value of the attribute that starts at j (<<>> when j = 0).
AttrValueAt(text, j) ==
  IF j = 0 THEN <<>> ELSE SubSeq(text, j + 3, FirstIn(text, {"\""}, j + 3) - 1)

\* The last position in value where highlight- is followed by [#\w].
HighlightAt(value) ==
  GreatestOr0({k \in 1..(Len(value) - 1) :
                 /\ value[k] = "highlight-"
                 /\ value[k + 1] = "#" \/ IsWordSym(value[k + 1])})

\* ([#\w]+) after the highlight- at k, with '#' put before it when it does
\* not start with one (lines 1166-1172); <<>> when k = 0.
HighlightColor(value, k) ==
  IF k = 0 THEN <<>>
  ELSE (IF value[k + 1] = "#" THEN <<>> ELSE <<"#">>)
         \o SubSeq(value, k + 1,
                   LeastOr0({e \in (k + 1)..Len(value) :
                               e = Len(value)
                               \/ ~(value[e + 1] = "#" \/ IsWordSym(value[e + 1]))}))

\* backgroundColor of lines 1163-1178: the colour of the data attribute when
\* it has one, otherwise the colour of the highlight class.
BackgroundColor(attrs) ==
  IF AttrValueAt(attrs, AttrStart(attrs, "data-highlight-colour")) # <<>>
  THEN AttrValueAt(attrs, AttrStart(attrs, "data-highlight-colour"))
  ELSE HighlightColor(AttrValueAt(attrs, AttrStart(attrs, "class")),
                      HighlightAt(AttrValueAt(attrs, AttrStart(attrs, "class"))))

\* `background-color: ${backgroundColor};`
BackgroundDeclaration(color) == <<"background-color", ":", " ">> \o color \o <<";">>

\* Lines 1185-1191: the style attribute at j with the declaration added,
\* unless the style names a background-color already.
StyleUpdated(attrs, j, existing, color) ==
  IF Includes(existing, <<"background-color">>) THEN attrs
  ELSE SubSeq(attrs, 1, j + 2) \o existing
         \o (IF existing # <<>> /\ existing[Len(existing)] = ";" THEN <<>> ELSE <<";">>)
         \o <<" ">> \o BackgroundDeclaration(color)
         \o SubSeq(attrs, j + 3 + Len(existing), Len(attrs))

\* Lines 1181-1195.
WithBackground(attrs, color) ==
  IF AttrStart(attrs, "style") > 0
  THEN StyleUpdated(attrs, AttrStart(attrs, "style"),
                    AttrValueAt(attrs, AttrStart(attrs, "style")), color)
  ELSE attrs \o <<" ", "style", "=", "\"">> \o BackgroundDeclaration(color) \o <<"\"">>

\* \s*NAME="[^"]*" at position i: the position after the closing quote.
AttrEnd(s, i, name) == Past(s, Lit(s, Ws0(s, i), <<name, "=", "\"">>), {"\""})

\* .replace(/\s*NAME="[^"]*"\s*/gi, rep) with the trailing \s* when trail.
RemoveAttr(s, name, trail, rep) ==
  ReplaceAll(s, [i \in 1..Len(s) |->
                   IF AttrEnd(s, i, name) = 0 THEN NoMatch
                   ELSE [end |-> IF trail THEN Ws0(s, AttrEnd(s, i, name))
                                 ELSE AttrEnd(s, i, name),
                         rep |-> rep]])

\* newAttrs of lines 1161-1199.
HighlightedAttrs(attrs) ==
  IF BackgroundColor(attrs) = <<>> THEN attrs
  ELSE RemoveAttr(WithBackground(attrs, BackgroundColor(attrs)),
                  "data-highlight-colour", FALSE, <<>>)

\* /<(th|td)([^>]*?)>/gi at position i.
CellOpenAt(s, i, g) ==
  IF ~IsCellOpen(s, i) \/ g = 0 THEN NoMatch
  ELSE [end |-> g,
        rep |-> <<"<", s[i + 1]>> \o HighlightedAttrs(SubSeq(s, i + 2, g - 2)) \o <<">">>]

convertConfluenceHighlights(html) ==
  ReplaceAll(html, [i \in 1..Len(html) |-> CellOpenAt(html, i, Past(html, i, {">"}))])

\* The symbols of a class value that contain 'confluence'.
ConfluenceClasses == ConfluenceCellClasses \cup {"confluenceTable", "confluence"}

\* .replace(/\s*class="[^"]*NAME[^"]*"/gi, '') for the class names in names.
RemoveClassWith(s, names) ==
  ReplaceAll(s, [i \in 1..Len(s) |->
                   IF /\ AttrEnd(s, i, "class") > 0
                      /\ \E k \in Ws0(s, i)..(AttrEnd(s, i, "class") - 1) : s[k] \in names
                   THEN [end |-> AttrEnd(s, i, "class"), rep |-> <<>>]
                   ELSE NoMatch])

\* classes.split(/\s+/)
RECURSIVE SplitOnSpace(_)
SplitOnSpace(v) ==
  IF FirstIn(v, WhiteSpace, 1) > Len(v) THEN <<v>>
  ELSE <<SubSeq(v, 1, FirstIn(v, WhiteSpace, 1) - 1)>>
         \o SplitOnSpace(SubSeq(v, RunEnd(v, WhiteSpace, FirstIn(v, WhiteSpace, 1)), Len(v)))

\* The filter of line 1101: the class is kept.
KeepsClass(cls) ==
  /\ \A k \in 1..Len(cls) : cls[k] \notin ConfluenceClasses
  /\ ~StartsWith(cls, <<"highlight-">>)

\* Lines 1098-1104 for the class value classes.
FilteredClassAttr(filteredClasses) ==
  IF filteredClasses # <<>> THEN <<"class", "=", "\"">> \o filteredClasses \o <<"\"">>
  ELSE <<>>

FilterClasses(s) ==
  ReplaceAll(s, [i \in 1..Len(s) |->
                   IF Lit(s, i, <<"class", "=", "\"">>) = 0 \/ Past(s, i + 3, {"\""}) = 0
                   THEN NoMatch
                   ELSE [end |-> Past(s, i + 3, {"\""}),
                         rep |-> FilteredClassAttr(
                                   JoinWith(SelectSeq(SplitOnSpace(
                                                        Between(s, i + 3, Past(s, i + 3, {"\""}) - 1)),
                                                      KeepsClass),
                                            <<" ">>))]])

\* .replace(/\s*class=""\s*/gi, ' ')
EmptyClassRemoved(s) ==
  ReplaceAll(s, [i \in 1..Len(s) |->
                   IF Lit(s, Ws0(s, i), <<"class", "=", "\"", "\"">>) = 0 THEN NoMatch
                   ELSE [end |-> Ws0(s, Lit(s, Ws0(s, i), <<"class", "=", "\"", "\"">>)),
                         rep |-> <<" ">>]])

\* .replace(/\s+/g, ' ')
SquashSpace(s) ==
  ReplaceAll(s, [i \in 1..Len(s) |->
                   IF s[i] \in WhiteSpace THEN [end |-> RunEnd(s, WhiteSpace, i), rep |-> <<" ">>]
                   ELSE NoMatch])

\* .replace(/\s+>/g, '>')
NoSpaceBeforeClose(s) ==
  ReplaceAll(s, [i \in 1..Len(s) |->
                   IF Lit(s, Ws1(s, i), <<">">>) = 0 THEN NoMatch
                   ELSE [end |-> Lit(s, Ws1(s, i), <<">">>), rep |-> <<">">>]])

\* .replace(/>\s*</g, '>\n<')
LineBetweenTags(s) ==
  ReplaceAll(s, [i \in 1..Len(s) |->
                   IF Lit(s, Ws0(s, Lit(s, i, <<">">>)), <<"<">>) = 0 THEN NoMatch
                   ELSE [end |-> Lit(s, Ws0(s, Lit(s, i, <<">">>)), <<"<">>),
                         rep |-> <<">", "\n", "<">>]])

\* The position after the tag at i when it is an opening (closing) tag of
\* one of names, 0 otherwise: <NAME[^>]*> and <\/NAME>.
TagEnd(s, i, closing, names) ==
  IF closing
  THEN (IF /\ HasAt(s, i, <<"<", "/">>)
           /\ i + 3 <= Len(s)
           /\ LowerSym(s[i + 2]) \in names
           /\ s[i + 3] = ">"
        THEN i + 4 ELSE 0)
  ELSE (IF s[i] = "<" /\ i + 1 <= Len(s) /\ LowerSym(s[i + 1]) \in names
        THEN Past(s, i + 2, {">"}) ELSE 0)

\* .replace(TAG, match => before + match + after)
AroundTags(s, closing, names, before, after) ==
  ReplaceAll(s, [i \in 1..Len(s) |->
                   IF TagEnd(s, i, closing, names) = 0 THEN NoMatch
                   ELSE [end |-> TagEnd(s, i, closing, names),
                         rep |-> before \o Between(s, i, TagEnd(s, i, closing, names))
                                   \o after]])

\* .replace(/\n\s*\n/g, '\n')
NoBlankLines(s) ==
  ReplaceAll(s, [i \in 1..Len(s) |->
                   IF /\ s[i] = "\n"
                      /\ \E k \in (i + 1)..(RunEnd(s, WhiteSpace, i) - 1) : s[k] = "\n"
                   THEN [end |-> GreatestOr0({k \in (i + 1)..(RunEnd(s, WhiteSpace, i) - 1) :
                                                s[k] = "\n"}) + 1,
                         rep |-> <<"\n">>]
                   ELSE NoMatch])

TableStyle ==
  <<" ", "style", "=", "\"", "border-collapse", ":", " ", "collapse", ";", " ",
    "width", ":", " ", "100", "%", ";", "\"">>

\* defaultStyle of lines 1142-1144.
DefaultCellStyle(tag) ==
  <<" ", "style", "=", "\"", "border", ":", " ", "1px", " ", "solid", " ", "#", "ddd", ";",
    " ", "padding", ":", " ", "8px", ";">>
    \o (IF tag = "th"
        THEN <<" ", "background-color", ":", " ", "#", "f5f5f5", ";", " ", "font-weight",
               ":", " ", "bold", ";">>
        ELSE <<>>)
    \o <<"\"">>

\* Lines 1126-1150: the basic styling, added when the table holds no style.
BasicStyling(s) ==
  IF Includes(s, <<"style", "=">>) \/ Includes(s, <<"<", "style", ">">>) THEN s
  ELSE ReplaceAll(s, [i \in 1..Len(s) |->
         IF TagEnd(s, i, FALSE, {"table", "th", "td"}) = 0 THEN NoMatch
         ELSE [end |-> TagEnd(s, i, FALSE, {"table", "th", "td"}),
               rep |-> Between(s, i, TagEnd(s, i, FALSE, {"table", "th", "td"}) - 1)
                         \o (IF LowerSym(s[i + 1]) = "table" THEN TableStyle
                             ELSE DefaultCellStyle(s[i + 1]))
                         \o <<">">>]])

\* The steps of cleanTableHtml (lines 1087-1153), in order.
CleanSteps == 19

CleanStep(k, s) ==
  CASE k = 1 -> convertConfluenceHighlights(s)
    [] k = 2 -> RemoveClassWith(s, ConfluenceCellClasses)
    [] k = 3 -> RemoveClassWith(s, {"confluenceTable"})
    [] k = 4 -> FilterClasses(s)
    [] k = 5 -> EmptyClassRemoved(s)
    [] k = 6 -> RemoveAttr(s, "data-highlight-colour", TRUE, <<" ">>)
    [] k = 7 -> SquashSpace(s)
    [] k = 8 -> NoSpaceBeforeClose(s)
    [] k = 9 -> LineBetweenTags(s)
    [] k = 10 -> AroundTags(s, FALSE, {"table"}, <<>>, <<"\n">>)
    [] k = 11 -> AroundTags(s, TRUE, {"table"}, <<"\n">>, <<>>)
    [] k = 12 -> AroundTags(s, FALSE, {"tbody", "thead", "tfoot"}, <<>>, <<"\n">>)
    [] k = 13 -> AroundTags(s, TRUE, {"tbody", "thead", "tfoot"}, <<"\n">>, <<>>)
    [] k = 14 -> AroundTags(s, FALSE, {"tr"}, <<" ", " ">>, <<"\n">>)
    [] k = 15 -> AroundTags(s, TRUE, {"tr"}, <<"\n", " ", " ">>, <<>>)
    [] k = 16 -> AroundTags(s, FALSE, CellTags, <<" ", " ", " ", " ">>, <<>>)
    [] k = 17 -> AroundTags(s, TRUE, CellTags, <<>>, <<"\n">>)
    [] k = 18 -> Trim(NoBlankLines(s))
    [] k = 19 -> BasicStyling(s)

RECURSIVE CleanFrom(_, _)
CleanFrom(k, s) ==
  IF k > CleanSteps THEN s
  ELSE CHOOSE out \in {CleanFrom(k + 1, n) : n \in {CleanStep(k, s)}} : TRUE

cleanTableHtml(tableHtml) == CleanFrom(1, tableHtml)

\* node.outerHTML of the parsed table: inside a tag the attributes are
\* separated by one space and nothing stands before the closing '>'.
OuterHtml(s) ==
  ReplaceAll(s, [i \in 1..Len(s) |->
                   IF s[i] # "<" \/ Past(s, i, {">"}) = 0 THEN NoMatch
                   ELSE [end |-> Past(s, i, {">"}),
                         rep |-> NoSpaceBeforeClose(SquashSpace(Between(s, i, Past(s, i, {">"}))))]])

\* The preserveHtmlTable rule (lines 1074-1081) on the table at position i.
PreservedTableAt(s, i, e) ==
  IF Lit(s, i, <<"<", "table">>) = 0 \/ e = 0 THEN NoMatch
  ELSE [end |-> e + 4,
        rep |-> <<"\n", "\n">> \o cleanTableHtml(OuterHtml(SubSeq(s, i, e + 3)))
                  \o <<"\n", "\n">>]

\* htmlTableTurndownService.turndown for a document of tables and text.
turndownPreserving(html) ==
  TrimResult(ReplaceAll(html, [i \in 1..Len(html) |->
                                 PreservedTableAt(html, i,
                                                  LazyTo(html, i, <<"<", "/", "table", ">">>))]))

\* convertToMarkdown(html, {preserveHtmlTables: true})
convertPreservingTables(html) ==
  Only({turndownPreserving(p) : p \in {preprocessConfluenceHtml(html, <<>>)}})

\* A cell: its class attribute (none, the highlight class alone, with the
\* cell class of Confluence before or after it, the cell class alone),
\* whether it has the data attribute, its style and the highlight colour
\* as the class writes it.
HighlightCells ==
  [tag : CellTags,
   class : {"none", "highlight", "cell highlight", "highlight cell", "cell"},
   data : BOOLEAN,
   style : {<<>>, <<"color", ":", " ", "red">>, <<"color", ":", " ", "red", ";">>},
   color : {<<"#", "fff0b3">>, <<"e3fcef">>}]

CellClassName(c) == IF c.tag = "th" THEN "confluenceTh" ELSE "confluenceTd"

ClassValue(c) ==
  CASE c.class = "highlight" -> <<"highlight-">> \o c.color
    [] c.class = "cell highlight" -> <<CellClassName(c), " ", "highlight-">> \o c.color
    [] c.class = "highlight cell" -> <<"highlight-">> \o c.color \o <<" ", CellClassName(c)>>
    [] c.class = "cell" -> <<CellClassName(c)>>
    [] c.class = "none" -> <<>>

\* The colour of the cell with its '#'.
HashColor(c) == IF c.color[1] = "#" THEN c.color ELSE <<"#">> \o c.color

RenderHighlightCell(c) ==
  <<"<", c.tag>>
    \o OptionalAttr("class", ClassValue(c))
    \o (IF c.data THEN OptionalAttr("data-highlight-colour", HashColor(c)) ELSE <<>>)
    \o OptionalAttr("style", c.style)
    \o <<">", "d", "<", "/", c.tag, ">">>

RenderHighlightTable(c) ==
  <<"<", "table", " ", "class", "=", "\"", "confluenceTable", "\"", ">", "<", "tbody", ">",
    "<", "tr", ">">> \o RenderHighlightCell(c)
    \o <<"<", "/", "tr", ">", "<", "/", "tbody", ">", "<", "/", "table", ">">>

InitPreserve ==
  /\ pc = "ready"
  /\ input \in HighlightCells
  /\ output = <<>>
  /\ log = <<>>
  /\ ImgIdle
  /\ CliIdle

ConvertPreservingTables ==
  /\ pc = "ready"
  /\ output' = <<convertPreservingTables(RenderHighlightTable(input))>>
  /\ pc' = "preserved"
  /\ UNCHANGED <<cliVars, input, log, imgVars>>

NextPreserve == ConvertPreservingTables

SpecPreserve == InitPreserve /\ [][NextPreserve]_vars

\* The cell carries a highlight class or the data attribute.
IsHighlighted(c) == c.data \/ c.class \in {"highlight", "cell highlight", "highlight cell"}

\* C21: in table-preservation mode every th or td with a highlight class or
\* a data-highlight-colour attribute is emitted with a style that holds
\* background-color: COLOR and without the class and the attribute, also
\* when the highlight class shares its attribute with confluenceTd or
\* confluenceTh.
C21_HighlightBecomesBackground ==
  (pc = "preserved" /\ IsHighlighted(input)) =>
    /\ Includes(output[1], BackgroundDeclaration(HashColor(input)))
    /\ ~Includes(output[1], <<"highlight-">>)
    /\ ~Includes(output[1], <<"data-highlight-colour">>)

\* The highlight is lost exactly when the class stands beside the cell
\* class and the cell has no data attribute; then the cell gets the basic
\* styling instead.
HighlightLostBesideCellClass ==
  (pc = "preserved" /\ IsHighlighted(input)) =>
    /\ Includes(output[1], BackgroundDeclaration(HashColor(input)))
         <=> ~(input.class \in {"cell highlight", "highlight cell"} /\ ~input.data)
    /\ ~Includes(output[1], <<"highlight-">>)
    /\ ~Includes(output[1], <<"data-highlight-colour">>)

(***************************************************************************)
(* processImagesForWikiJs: the loop of downloadAndUpdateImages up to the   *)
(* written file, then the upload to Wiki.js, the rewrite of the reference  *)
(* and the deletion of the local file.                                     *)
(***************************************************************************)

\* `${uploadPath}/${asset.filename || sanitizedFilename}` for the default
\* upload path; the asset carries the name of the uploaded file.
WikiJsImagePath(url) == <<"/", "uploads", "/">> \o SanitizedFilename(url)

\* Lines 871-880: what the reference of image is replaced by.
WikiJsReference(image) ==
  IF image.type = "markdown" THEN MarkdownLink(image.alt, WikiJsImagePath(image.url))
  ELSE UpdatedImgTag(image.fullMatch, WikiJsImagePath(image.url))

\* Line 861 resolves; line 865 issues wikiJsClient.uploadAsset.
StatSucceeds ==
  /\ pc = "checking"
  /\ pc' = "uploading"
  /\ UNCHANGED <<cliVars, input, output, log, imgVars>>

\* Line 865 resolves: the reference is rewritten (lines 869-880) and
\* line 883 issues fs.unlink.
UploadSucceeds ==
  /\ pc = "uploading"
  /\ updatedMarkdown' = ReplaceFirst(updatedMarkdown, Image.fullMatch, WikiJsReference(Image))
  /\ pc' = "unlinking"
  /\ UNCHANGED <<cliVars, input, output, log, allImages, idx, downloadCount, files, requests>>

\* Line 865 rejects: the catch block of lines 888-899 logs the error.
UploadFails ==
  /\ pc = "uploading"
  /\ Caught("upload failed")
  /\ UNCHANGED <<cliVars, input, output, allImages, updatedMarkdown, downloadCount, files, requests>>

\* Line 883 resolves: the local file is gone.
UnlinkSucceeds ==
  /\ pc = "unlinking"
  /\ files' = {f \in files : f.name # SanitizedFilename(Image.url)}
  /\ downloadCount' = downloadCount + 1
  /\ NextImage("processed")
  /\ UNCHANGED <<cliVars, input, output, allImages, updatedMarkdown, requests>>

\* Line 883 rejects.
UnlinkFails ==
  /\ pc = "unlinking"
  /\ Caught("unlink failed")
  /\ UNCHANGED <<cliVars, input, output, allImages, updatedMarkdown, downloadCount, files, requests>>

NextWikiImages ==
  \/ StartDownload
  \/ MkdirFails
  \/ SkipImage
  \/ ExtractFails
  \/ RequestImage
  \/ FetchSucceeds
  \/ FetchFails
  \/ WriteSucceeds
  \/ WriteFails
  \/ StatSucceeds
  \/ StatFails
  \/ UploadSucceeds
  \/ UploadFails
  \/ UnlinkSucceeds
  \/ UnlinkFails
  \/ ReturnMarkdown

SpecWikiImages == InitImages /\ [][NextWikiImages]_vars

\* The reference of image k has been rewritten: its upload succeeded.
Uploaded(k) == log[k] \in {"processed", "unlink failed"}

\* C22: when processImagesForWikiJs returns, no file it wrote remains in
\* the images directory, whatever the outcome of each image, and a
\* reference is rewritten to the destination path only for an image that
\* was downloaded and uploaded.
C22_NoLocalFileRemains ==
  pc = "done" =>
    /\ files = {}
    /\ \A k \in 1..Len(allImages) :
         (\A n \in 1..Len(allImages) :
            allImages[n].fullMatch = allImages[k].fullMatch => ~Uploaded(n))
           => Untouched(output[1], ReferenceOf(k))

\* A file remains only for an image whose write, check, upload or deletion
\* failed, and it always remains when the upload of the last image of its
\* name failed; references are rewritten only after an upload.
FileRemainsAfterFailure ==
  pc = "done" =>
    /\ \A f \in files :
         \E k \in 1..Len(allImages) :
           /\ log[k] \in {"write failed", "stat failed", "upload failed", "unlink failed"}
           /\ f.name = SanitizedFilename(allImages[k].url)
    /\ (log[Len(log)] = "upload failed") =>
         \E f \in files : f.name = SanitizedFilename(allImages[Len(log)].url)
    /\ \A k \in 1..Len(allImages) :
         (\A n \in 1..Len(allImages) :
            allImages[n].fullMatch = allImages[k].fullMatch => ~Uploaded(n))
           => Untouched(output[1], ReferenceOf(k))

(***************************************************************************)
(* downloadAndUpdateImages on attachments of two pages that share a file   *)
(* name, and on a URL of another host that holds the base URL in its       *)
(* query string.                                                           *)
(***************************************************************************)
SharedNameKinds == {"attachment", "other page", "foreign", "external", "malformed"}

SharedNameDocs == UNION {[1..n -> SharedNameKinds] : n \in 1..MaxRefs}

InitSharedNames ==
  /\ pc = "ready"
  /\ input \in SharedNameDocs
  /\ output = <<>>
  /\ log = <<>>
  /\ ImgIdle
  /\ CliIdle

SpecSharedNames == InitSharedNames /\ [][NextImages]_vars

\* The URL is the base URL followed by a path: it is on the Confluence host.
OnConfluence(url) == StartsWith(url, ConfluenceBaseUrl \o <<"/">>)

\* C26: the Authorization header is sent only in requests whose URL begins
\* with the Confluence base URL (or is the base URL put before a relative
\* path); an absolute URL on another host is never fetched with it, even
\* when the base URL occurs elsewhere in that URL.  Every request of the
\* loop carries the header (line 660).
C26_CredentialsOnlyToConfluence ==
  \A n \in 1..Len(requests) : OnConfluence(requests[n].url)

\* A request leaves the Confluence host only for an absolute URL that holds
\* the base URL somewhere after its own host.
ForeignFetchedWhenBaseUrlInside ==
  \A n \in 1..Len(requests) :
    ~OnConfluence(requests[n].url) =>
      /\ input[ReferenceOf(requests[n].image)] = "foreign"
      /\ requests[n].url = allImages[requests[n].image].url
      /\ Includes(requests[n].url, ConfluenceBaseUrl)

\* The images whose reference was rewritten.
Rewritten == {k \in 1..Len(log) : log[k] = "updated"}

\* C27: in one run two references with different attachment URLs are never
\* rewritten to the same local path, and the file of one is never
\* overwritten by the other.
C27_DistinctUrlsDistinctFiles ==
  pc = "done" =>
    \A j \in Rewritten, k \in Rewritten :
      allImages[j].url # allImages[k].url =>
        RelativePath(allImages[j].url) # RelativePath(allImages[k].url)

\* Two attachments are written to one file exactly when their names
\* sanitize to the same string.
SameNameSameFile ==
  pc = "done" =>
    /\ \A j \in Rewritten, k \in Rewritten :
         RelativePath(allImages[j].url) = RelativePath(allImages[k].url)
           <=> SanitizedFilename(allImages[j].url) = SanitizedFilename(allImages[k].url)
    /\ Cardinality(files) <= Cardinality({SanitizedFilename(allImages[k].url) :
                                            k \in 1..Len(allImages)})

(***************************************************************************)
(* ConfluenceClient (src/src/confluence-client.ts, lines 1-205)            *)
(*                                                                         *)
(* The server is the environment: which of the probed endpoints answers    *)
(* and what a request returns are drawn anew for every request.  A space   *)
(* holds the pages 1..input.total; a well-formed answer to a request for   *)
(* `limit` pages from offset `start` holds the pages start+1..start+limit  *)
(* that exist.  Every request is recorded with its URL and its answer.     *)
(***************************************************************************)
RestApi == <<"/", "rest", "/", "api">>

SpaceResource == <<"/", "space">>

\* Lines 168-172.
endpoints ==
  << RestApi \o SpaceResource,
     <<"/", "wiki">> \o RestApi \o SpaceResource,
     <<"/", "confluence">> \o RestApi \o SpaceResource >>

\* config.baseUrl: the address of the site, or an address that already
\* holds an API path.
ConfiguredBaseUrls ==
  {ConfluenceBaseUrl, ConfluenceBaseUrl \o <<"/", "wiki">> \o RestApi}

MaxTotal == 101

MaxCalls == 2

\* Line 142.
limit == 50

\* answered: the number of the first endpoint that answers, 0 when none does.
Answers == 0..Len(endpoints)

\* Lines 174-188: the endpoints are requested in order up to the first that
\* answers.
Probes(base, answered) ==
  [k \in 1..(IF answered = 0 THEN Len(endpoints) ELSE answered) |->
     [by |-> "testConnection", url |-> base \o endpoints[k], start |-> 0,
      response |-> IF k = answered THEN "ok" ELSE "rejected"]]

\* Lines 181-182.
DiscoveredBaseUrl(configured, answered) ==
  configured \o ReplaceFirst(endpoints[answered], SpaceResource, <<>>)

\* Line 198.
HasApiPath(base) == Includes(base, RestApi)

\* Lines 196-204: the requests ensureApiPath issues, whether it raises, and
\* the base URL it leaves.
EnsureRequests(answered) ==
  IF HasApiPath(baseURL) THEN <<>> ELSE Probes(baseURL, answered)

EnsureFails(answered) == ~HasApiPath(baseURL) /\ answered = 0

EnsuredBaseUrl(answered) ==
  IF HasApiPath(baseURL) \/ answered = 0 THEN baseURL
  ELSE DiscoveredBaseUrl(input.baseUrl, answered)

Request(by, base, path, from, response) ==
  [by |-> by, url |-> base \o path, start |-> from, response |-> response]

Returned(by, ok, pages) == [by |-> by, ok |-> ok, pages |-> pages]

\* A method that calls ensureApiPath and then issues one GET: getSpaces
\* (lines 35-49) and getPage (lines 99-111).
EnsuredGet(by, path, answered, response) ==
  /\ baseURL' = EnsuredBaseUrl(answered)
  /\ requests' = requests \o EnsureRequests(answered) \o
                 (IF EnsureFails(answered) THEN <<>>
                  ELSE <<Request(by, EnsuredBaseUrl(answered), path, 0, response)>>)
  /\ output' = Append(output,
                 Returned(by, ~EnsureFails(answered) /\ response = "results", <<>>))
  /\ UNCHANGED <<pc, input, log, allImages, idx, updatedMarkdown, downloadCount,
                 files, start, allPages, results, wikiPages>>

GetSpaces ==
  /\ pc = "idle"
  /\ Len(output) < input.calls
  /\ \E answered \in Answers, response \in {"results", "rejected"} :
       EnsuredGet("getSpaces", SpaceResource, answered, response)

GetPage ==
  /\ pc = "idle"
  /\ Len(output) < input.calls
  /\ \E answered \in Answers, response \in {"results", "rejected"} :
       EnsuredGet("getPage", <<"/", "content", "/", "123456">>, answered, response)

\* Lines 116-134.
SearchPages ==
  /\ pc = "idle"
  /\ Len(output) < input.calls
  /\ \E response \in {"results", "rejected"} :
       /\ requests' = Append(requests,
                        Request("searchPages", baseURL, <<"/", "search">>, 0, response))
       /\ output' = Append(output, Returned("searchPages", response = "results", <<>>))
  /\ UNCHANGED <<pc, input, log, allImages, idx, updatedMarkdown, downloadCount,
                 files, baseURL, start, allPages, results, wikiPages>>

\* Lines 167-191, called by the test-connection command (index.ts, 976).
TestConnection ==
  /\ pc = "idle"
  /\ Len(output) < input.calls
  /\ \E answered \in Answers :
       /\ requests' = requests \o Probes(baseURL, answered)
       /\ baseURL' = IF answered = 0 THEN baseURL
                     ELSE DiscoveredBaseUrl(input.baseUrl, answered)
       /\ output' = Append(output, Returned("testConnection", answered > 0, <<>>))
  /\ UNCHANGED <<pc, input, log, allImages, idx, updatedMarkdown, downloadCount,
                 files, start, allPages, results, wikiPages>>

\* Lines 139-142.
GetAllPagesFromSpace ==
  /\ pc = "idle"
  /\ Len(output) < input.calls
  /\ pc' = "paging"
  /\ start' = 0
  /\ allPages' = <<>>
  /\ UNCHANGED <<input, output, log, allImages, idx, updatedMarkdown, downloadCount,
                 files, requests, baseURL, results, wikiPages>>

\* The pages a well-formed answer holds.
ServerPage(total, from, n) ==
  [k \in 1..(IF total - from < n THEN (IF total < from THEN 0 ELSE total - from) ELSE n)
     |-> from + k]

\* The answers a request for pages can get: an object with a results
\* array, a bare array (line 80), an object whose results is not an array,
\* an object without results (line 89), a rejected request.
ResponseShapes == {"results", "array", "invalid", "object", "rejected"}

\* Lines 78-90 and 148: the answer yields a results array.
HasResultsArray(shape) == shape \in {"results", "array"}

LastPageInclusive(n) == n <= limit

\* Line 155.
LastPage(n) == n < limit

\* Lines 144-161, one round of the loop with the call of getPagesFromSpace
\* (lines 54-94) it makes.
GetPagesFromSpace ==
  /\ pc = "paging"
  /\ \E answered \in Answers, shape \in ResponseShapes :
       /\ baseURL' = EnsuredBaseUrl(answered)
       /\ requests' = requests \o EnsureRequests(answered) \o
                      (IF EnsureFails(answered) THEN <<>>
                       ELSE <<Request("getPagesFromSpace", EnsuredBaseUrl(answered),
                                      <<"/", "content">>, start, shape)>>)
       /\ IF EnsureFails(answered) \/ ~HasResultsArray(shape)
          THEN /\ pc' = "idle"
               /\ output' = Append(output, Returned("getAllPagesFromSpace", FALSE, <<>>))
               /\ UNCHANGED <<start, allPages>>
          ELSE /\ allPages' = allPages \o ServerPage(input.total, start, limit)
               /\ IF LastPage(Len(ServerPage(input.total, start, limit)))
                  THEN /\ pc' = "idle"
                       /\ output' = Append(output,
                            Returned("getAllPagesFromSpace", TRUE,
                                     allPages \o ServerPage(input.total, start, limit)))
                       /\ UNCHANGED start
                  ELSE /\ pc' = "paging"
                       /\ start' = start + limit
                       /\ UNCHANGED output
  /\ UNCHANGED <<input, log, allImages, idx, updatedMarkdown, downloadCount, files,
                 results, wikiPages>>

\* Line 18: a fresh client starts with the configured base URL.
FreshClient ==
  /\ pc = "idle"
  /\ output = <<>>
  /\ log = <<>>
  /\ ImgIdle
  /\ baseURL = input.baseUrl
  /\ start = 0
  /\ allPages = <<>>
  /\ results = <<>>
  /\ wikiPages = <<>>

\* export-space (index.ts, 51-55): one call of getAllPagesFromSpace on a
\* fresh client, for a space of any size up to MaxTotal.
InitPaging ==
  /\ input \in [baseUrl : ConfiguredBaseUrls, total : 0..MaxTotal, calls : {1}]
  /\ FreshClient

NextPaging == GetAllPagesFromSpace \/ GetPagesFromSpace

SpecPaging == InitPaging /\ [][NextPaging]_vars /\ WF_vars(NextPaging)

IsPageRequest(r) == r.by = "getPagesFromSpace"

\* The requests for pages, in the order they were issued.
PageRequests == SelectSeq(requests, IsPageRequest)

\* The results the k-th request for pages received.
Received(k) == ServerPage(input.total, PageRequests[k].start, limit)

PagingSafe ==
  /\ \A k \in 1..Len(PageRequests) : PageRequests[k].start = limit * (k - 1)
  /\ \A k \in 1..(Len(PageRequests) - 1) :
       HasResultsArray(PageRequests[k].response) /\ Len(Received(k)) = limit
  /\ \A k \in 1..Len(PageRequests) :
       ~HasResultsArray(PageRequests[k].response) =>
         /\ k = Len(PageRequests)
         /\ output = <<Returned("getAllPagesFromSpace", FALSE, <<>>)>>
  /\ (output # <<>> /\ output[1].ok) =>
       /\ Len(Received(Len(PageRequests))) < limit
       /\ output[1].pages = Flatten([k \in 1..Len(PageRequests) |-> Received(k)])
       /\ output[1].pages = [k \in 1..input.total |-> k]

\* C25: getAllPagesFromSpace asks for pages at start = 0, 50, 100, ... in
\* increasing order, goes on only after a response with 50 results, stops
\* after the first response with fewer and returns the received results
\* concatenated in request order (all pages of the space, also when their
\* number is a multiple of 50); a response without a results array ends the
\* call with an error; and the call always ends.
C25_PaginationInOrderAndTerminates == []PagingSafe /\ <>(Len(output) = 1)

C25_Witness ==
  /\ input.total = 2 * limit
  /\ Len(PageRequests) = 3
  /\ output # <<>> /\ output[1].ok /\ Len(output[1].pages) = 2 * limit

\* Any commands of index.ts on one client: up to MaxCalls calls in any
\* order, on an empty space and on one of exactly one full page.
InitClient ==
  /\ input \in [baseUrl : ConfiguredBaseUrls, total : {0, limit}, calls : {MaxCalls}]
  /\ FreshClient

NextClient ==
  \/ GetSpaces
  \/ GetPage
  \/ SearchPages
  \/ TestConnection
  \/ GetAllPagesFromSpace
  \/ GetPagesFromSpace

SpecClient == InitClient /\ [][NextClient]_vars

IsProbe(r) == r.by = "testConnection"

\* An endpoint has answered before the k-th request.
DiscoveredBefore(k) ==
  \E j \in 1..(k - 1) : IsProbe(requests[j]) /\ requests[j].response = "ok"

\* C30: every request for a REST resource is issued after discovery has set
\* the base URL, to a URL that holds the /rest/api path.
C30_ResourceRequestsAfterDiscovery ==
  \A k \in 1..Len(requests) :
    ~IsProbe(requests[k]) =>
      HasApiPath(requests[k].url) /\ DiscoveredBefore(k)

\* The probes that follow the (k-1)-th request are the known endpoints in
\* their order, each tried only after the one before it was rejected, and
\* nothing is tried after one that answered.
ProbesInOrder ==
  \A k \in 1..Len(requests) :
    IsProbe(requests[k]) =>
      \E e \in 1..Len(endpoints) :
        /\ \E base \in {input.baseUrl} \cup
                       {DiscoveredBaseUrl(input.baseUrl, a) : a \in 1..Len(endpoints)} :
             requests[k].url = base \o endpoints[e]
        /\ e > 1 => /\ k > 1
                    /\ IsProbe(requests[k - 1])
                    /\ requests[k - 1].response = "rejected"
                    /\ requests[k - 1].url # requests[k].url
        /\ (e < Len(endpoints) /\ requests[k].response = "rejected") =>
             /\ k < Len(requests)
             /\ IsProbe(requests[k + 1])

\* What the client does: the methods other than searchPages request a URL
\* with the API path, after discovery unless the configured base URL holds
\* the path already; searchPages requests whatever base URL the client has
\* at that moment, which on a fresh client is the configured one.
OnlySearchSkipsDiscovery ==
  /\ ProbesInOrder
  /\ \A k \in 1..Len(requests) :
       (~IsProbe(requests[k]) /\ requests[k].by # "searchPages") =>
         /\ HasApiPath(requests[k].url)
         /\ DiscoveredBefore(k) \/ HasApiPath(input.baseUrl)
  /\ \A k \in 1..Len(requests) :
       (requests[k].by = "searchPages" /\ ~HasApiPath(input.baseUrl)) =>
         (HasApiPath(requests[k].url) <=> DiscoveredBefore(k))
  /\ \A k \in 1..Len(output) :
       (output[k].by = "testConnection" /\ ~output[k].ok) =>
         \E j \in 3..Len(requests) :
           \A e \in 1..3 : /\ IsProbe(requests[j - 3 + e])
                           /\ requests[j - 3 + e].response = "rejected"

(***************************************************************************)
(* Wiki.js page paths (src/src/wikijs-client.ts, lines 432-443, 579-617)   *)
(*                                                                         *)
(* A character outside ASCII is one symbol written in parentheses.         *)
(***************************************************************************)
NonAscii == {"(U-umlaut)", "(u-umlaut)", "(e-acute)", "(kanji)"}

\* Lines 581-595, the entries for the symbols of the model.
Transliterate(c) ==
  CASE c = "(U-umlaut)" -> "Ue"
    [] c = "(u-umlaut)" -> "ue"
    [] c = "(e-acute)" -> "e"
    [] OTHER -> c

\* Line 610: [\s\/\\:*?"<>|]
UnsafeChars == WhiteSpace \cup {"/", "\\", ":", "*", "?", "\"", "<", ">", "|"}

\* Line 611: [\w\-]
IsPathSym(c) == c = "-" \/ (IsWordSym(c) /\ c \notin NonAscii)

\* Lines 610 and 612: every run of symbols of cs becomes one hyphen.
Hyphenate(s, cs) ==
  ReplaceAll(s, [i \in 1..Len(s) |->
                   IF s[i] \in cs THEN [end |-> RunEnd(s, cs, i), rep |-> <<"-">>]
                   ELSE NoMatch])

\* Line 613: one hyphen at the start and one at the end are removed.
StripHyphens(s) ==
  SubSeq(s, IF Len(s) > 0 /\ s[1] = "-" THEN 2 ELSE 1,
            IF Len(s) > 0 /\ s[Len(s)] = "-" THEN Len(s) - 1 ELSE Len(s))

\* Lines 579-617.
sanitizePathSegment(text) ==
  StripHyphens(
    Hyphenate(
      SelectSeq(
        Hyphenate(ToLowerCase([k \in 1..Len(text) |-> Transliterate(text[k])]),
                  UnsafeChars),
        IsPathSym),
      {"-"}))

\* Lines 432-443.
sanitizePagePath(title, spaceKey) ==
  IF spaceKey # <<>>
  THEN sanitizePathSegment(spaceKey) \o <<"/">> \o sanitizePathSegment(title)
  ELSE sanitizePathSegment(title)

(***************************************************************************)
(* The commands of src/src/index.ts                                        *)
(*                                                                         *)
(* input.command is the command, input.pages the titles of the pages of    *)
(* the space (of the files of the directory) in list order, input.options  *)
(* the flags, input.existing the paths that hold a page on the Wiki.js     *)
(* site before the run.  Every page holds one image.  One round of a loop  *)
(* is one step; where the round throws, and whether its image reaches      *)
(* Wiki.js, is drawn anew in every round.  log holds the line printed at   *)
(* the top of each round with the outcome of the round, requests the calls *)
(* of the Wiki.js client, wikiPages the page whose content each path of    *)
(* the site holds (0: the content from before the run), output the exit    *)
(* code when the command has called process.exit.                          *)
(***************************************************************************)
MaxPages == 2

Titles ==
  { <<"Release", " ", "Notes">>,
    <<"Release", ":", " ", "Notes">>,
    <<"(kanji)">>,
    <<"?", "?", "!">>,
    <<"(U-umlaut)", "bersicht">> }

SpaceKey == <<"DOCS">>

\* Titles are unique within a space, and file names within a directory.
PageLists ==
  UNION {{ps \in [1..n -> Titles] : \A a, b \in 1..n : ps[a] = ps[b] => a = b}
           : n \in 1..MaxPages}

BatchCommands == {"export-space", "export-to-wikijs", "convert-to-wikijs"}

NoOptions ==
  [dryRun |-> FALSE, update |-> TRUE, uploadImages |-> FALSE, skipImages |-> FALSE,
   createNavigation |-> FALSE, downloadImages |-> FALSE]

\* The flags each command declares; update is FALSE for --no-update.
OptionsOf(command) ==
  CASE command \in {"export-space", "export-page"} ->
         {[NoOptions EXCEPT !.downloadImages = d] : d \in BOOLEAN}
    [] command = "export-to-wikijs" ->
         [dryRun : BOOLEAN, update : BOOLEAN, uploadImages : BOOLEAN,
          skipImages : BOOLEAN, createNavigation : BOOLEAN, downloadImages : {FALSE}]
    [] command = "convert-to-wikijs" ->
         [dryRun : BOOLEAN, update : BOOLEAN, uploadImages : BOOLEAN,
          skipImages : {FALSE}, createNavigation : {FALSE}, downloadImages : {FALSE}]

\* index.ts, lines 579-585 and 806.
PagePath(command, title) ==
  IF command = "export-to-wikijs" THEN sanitizePagePath(title, SpaceKey)
  ELSE sanitizePagePath(title, <<>>)

InitCommands ==
  /\ pc = "ready"
  /\ \E command \in BatchCommands \cup {"export-page"} :
       input \in [command : {command},
                  pages : {ps \in PageLists : command = "export-page" => Len(ps) = 1},
                  options : OptionsOf(command),
                  existing : {{}, {PagePath(command, <<"Release", " ", "Notes">>)}}]
  /\ output = <<>>
  /\ log = <<>>
  /\ ImgIdle
  /\ baseURL = <<>>
  /\ start = 0
  /\ allPages = <<>>
  /\ results = <<>>
  /\ wikiPages = [p \in input.existing |-> 0]

\* Lines 51-67, 517-533, 766-790: what precedes the loop is inside the
\* outer try only; a failure there ends the command (lines 101-104).
StartBatch ==
  /\ pc = "ready"
  /\ input.command \in BatchCommands
  /\ \E ok \in BOOLEAN :
       /\ pc' = IF ok THEN "loop" ELSE "exited"
       /\ output' = IF ok THEN output ELSE <<1>>
       /\ idx' = IF ok THEN 1 ELSE idx
  /\ UNCHANGED <<input, log, allImages, updatedMarkdown, downloadCount, files,
                 requests, cliVars>>

InRound(command) ==
  /\ pc = "loop"
  /\ input.command = command
  /\ idx <= Len(input.pages)

ItemRethrown(failed) == IF failed THEN "exited" ELSE "loop"

\* The catch blocks of lines 95-97, 663-670 and 950-952 end the round, not
\* the loop.
ItemCaught(failed) == "loop"

\* Lines 70-72, 535-537, 792-796 and the end of a round.
RoundEnds(failed) ==
  /\ log' = Append(log, [item |-> idx, failed |-> failed])
  /\ idx' = idx + 1
  /\ pc' = ItemCaught(failed)
  /\ output' = output

\* Lines 70-98.  step is the call that throws: convertPageToFile, the image
\* download with the reading and writing around it, or none.
ExportSpacePage ==
  /\ InRound("export-space")
  /\ \E step \in {"convert", "images", "none"} :
       /\ step = "images" => input.options.downloadImages
       /\ files' = IF step = "convert" THEN files ELSE files \cup {idx}
       /\ RoundEnds(step # "none")
  /\ UNCHANGED <<input, allImages, updatedMarkdown, downloadCount, requests, cliVars>>

\* Lines 140-177: the single page; every failure reaches the catch of lines
\* 173-176.
ExportPage ==
  /\ pc = "ready"
  /\ input.command = "export-page"
  /\ \E step \in {"fetch", "convert", "images", "none"} :
       /\ step = "images" => input.options.downloadImages
       /\ files' = IF step \in {"fetch", "convert"} THEN files ELSE files \cup {1}
       /\ log' = Append(log, [item |-> 1, failed |-> step # "none"])
       /\ pc' = IF step = "none" THEN "done" ELSE "exited"
       /\ output' = IF step = "none" THEN output ELSE <<1>>
  /\ UNCHANGED <<input, allImages, idx, updatedMarkdown, downloadCount, requests,
                 cliVars>>

Call(name, path) == [call |-> name, item |-> idx, path |-> path]

\* Line 553.
UploadsImages(options) == options.uploadImages /\ ~options.skipImages

\* Lines 593 and 642: the page exists and --no-update was given.
SkipsExisting(options, path) == path \in DOMAIN wikiPages /\ ~options.update

\* The round reaches the lookup of the page, and the creation or update.
Looks(step) == step \in {"page", "none"}

Writes(options, step, path) ==
  ~options.dryRun /\ Looks(step) /\ ~SkipsExisting(options, path)

\* Lines 615-621, 909-915.
WriteCall(path) ==
  Call(IF path \in DOMAIN wikiPages THEN "updatePage" ELSE "createPage", path)

\* The calls of a round on the Wiki.js client, in their order, when the
\* image is uploaded first (uploads) and the round throws in step.
RoundCalls(options, uploads, step, path) ==
  (IF uploads THEN <<Call("uploadAsset", <<>>)>> ELSE <<>>)
  \o (IF Looks(step) THEN <<Call("getPageByPath", path)>> ELSE <<>>)
  \o (IF Writes(options, step, path) THEN <<WriteCall(path)>> ELSE <<>>)

\* The site after the round.
Written(options, step, path) ==
  IF Writes(options, step, path) /\ step = "none"
  THEN (path :> idx) @@ wikiPages
  ELSE wikiPages

\* Lines 595-600, 623-628, 665-669: the entry of the round.
ResultEntry(options, uploaded, step, path) ==
  IF step # "none" THEN [item |-> idx, status |-> "error", uploadedAssets |-> 0]
  ELSE IF SkipsExisting(options, path)
       THEN [item |-> idx, status |-> "skipped", uploadedAssets |-> 0]
       ELSE [item |-> idx, status |-> "success",
             uploadedAssets |-> IF uploaded THEN 1 ELSE 0]

\* Lines 535-671.  step is the call that throws: convertToMarkdown,
\* processImagesForWikiJs (its fs.mkdir), createPage or updatePage, or
\* none; uploaded tells whether the image of the page reached uploadAsset.
ExportToWikiJsPage ==
  /\ InRound("export-to-wikijs")
  /\ \E step \in {"convert", "images", "page", "none"}, uploaded \in BOOLEAN :
       /\ step = "images" => ~input.options.dryRun /\ UploadsImages(input.options)
       /\ step = "page" =>
            Writes(input.options, step, PagePath("export-to-wikijs", input.pages[idx]))
       /\ uploaded =>
            ~input.options.dryRun /\ UploadsImages(input.options) /\ Looks(step)
       /\ requests' = requests \o
            RoundCalls(input.options, uploaded, step,
                       PagePath("export-to-wikijs", input.pages[idx]))
       /\ wikiPages' = Written(input.options, step,
                               PagePath("export-to-wikijs", input.pages[idx]))
       /\ results' =
            IF input.options.dryRun /\ step = "none" THEN results
            ELSE Append(results,
                   ResultEntry(input.options, uploaded, step,
                               PagePath("export-to-wikijs", input.pages[idx])))
       /\ RoundEnds(step # "none")
  /\ UNCHANGED <<input, allImages, updatedMarkdown, downloadCount, files, baseURL,
                 start, allPages>>

UploadsLocalImagesAlways(options) == options.uploadImages

\* Line 813.
UploadsLocalImages(options) == options.uploadImages /\ ~options.dryRun

\* Lines 792-952.  step is the call that throws: fs.readFile or the
\* fs.mkdir of line 818, createPage or updatePage, or none; a failed upload
\* is caught inside (lines 864-870).
ConvertToWikiJsFile ==
  /\ InRound("convert-to-wikijs")
  /\ \E step \in {"read", "page", "none"}, uploaded \in BOOLEAN :
       /\ step = "page" =>
            Writes(input.options, step, PagePath("convert-to-wikijs", input.pages[idx]))
       /\ uploaded => UploadsLocalImages(input.options) /\ Looks(step)
       /\ requests' = requests \o
            RoundCalls(input.options, uploaded, step,
                       PagePath("convert-to-wikijs", input.pages[idx]))
       /\ wikiPages' = Written(input.options, step,
                               PagePath("convert-to-wikijs", input.pages[idx]))
       /\ RoundEnds(step # "none")
  /\ UNCHANGED <<input, allImages, updatedMarkdown, downloadCount, files, baseURL,
                 start, allPages, results>>

IsSuccess(r) == r.status = "success"

\* Line 681.
CreatesNavigation(options) ==
  options.createNavigation /\ ~options.dryRun /\ SelectSeq(results, IsSuccess) # <<>>

\* Lines 100, 673-731, 955: the loop is over; export-to-wikijs creates the
\* navigation, whose failure is caught (lines 704-706).
FinishBatch ==
  /\ pc = "loop"
  /\ idx > Len(input.pages)
  /\ pc' = "done"
  /\ requests' = IF input.command = "export-to-wikijs" /\ CreatesNavigation(input.options)
                 THEN Append(requests, [call |-> "createNavigation", item |-> 0,
                                        path |-> <<>>])
                 ELSE requests
  /\ UNCHANGED <<input, output, log, allImages, idx, updatedMarkdown, downloadCount,
                 files, baseURL, start, allPages, results, wikiPages>>

NextCommands ==
  \/ StartBatch
  \/ ExportSpacePage
  \/ ExportPage
  \/ ExportToWikiJsPage
  \/ ConvertToWikiJsFile
  \/ FinishBatch

SpecCommands == InitCommands /\ [][NextCommands]_vars

IsBatch == input.command \in BatchCommands

\* C23: in the batch commands the rounds are those of the items 1, 2, ...
\* in list order, each once, a failed round is followed by the round of the
\* next item, the command ends only after the round of the last item, and
\* it exits with an error only before the first round; in export-page a
\* failure ends the run with exit code 1.
C23_EveryItemAttemptedOnceInOrder ==
  /\ \A k \in 1..Len(log) : log[k].item = k
  /\ IsBatch =>
       /\ pc = "loop" => idx = Len(log) + 1 /\ idx <= Len(input.pages) + 1
       /\ pc = "done" => Len(log) = Len(input.pages) /\ output = <<>>
       /\ pc = "exited" => log = <<>>
  /\ ~IsBatch =>
       /\ Len(log) <= 1
       /\ \A k \in 1..Len(log) :
            IF log[k].failed THEN pc = "exited" /\ output = <<1>>
            ELSE pc = "done" /\ output = <<>>

C23_Witness ==
  /\ input.command = "export-to-wikijs"
  /\ pc = "done"
  /\ Len(log) = 2
  /\ log[1].failed
  /\ ~log[2].failed

C23_WitnessExportPage ==
  /\ input.command = "export-page"
  /\ pc = "exited"
  /\ Len(log) = 1

IsLookup(r) == r.call = "getPageByPath"

\* C24: with --dry-run the commands export-to-wikijs and convert-to-wikijs
\* call nothing but getPageByPath on the Wiki.js client, whatever the other
\* flags, and the site keeps the pages it had.
C24_DryRunOnlyLooksUp ==
  (input.command \in {"export-to-wikijs", "convert-to-wikijs"} /\ input.options.dryRun) =>
    /\ \A k \in 1..Len(requests) : IsLookup(requests[k])
    /\ wikiPages = [p \in input.existing |-> 0]

C24_Witness ==
  /\ input.command = "export-to-wikijs"
  /\ input.options.dryRun
  /\ input.options.uploadImages /\ ~input.options.skipImages
  /\ input.options.createNavigation
  /\ pc = "done"
  /\ Len(requests) = 2

\* The path of the page of the k-th result entry.
PathOfResult(k) == PagePath(input.command, input.pages[results[k].item])

\* C28: in a run of export-to-wikijs every page that was exported with
\* success is on the Wiki.js page of its path: no page exported later has
\* replaced its content.
C28_ExportedPagesKeepTheirContent ==
  input.command = "export-to-wikijs" =>
    \A k \in 1..Len(results) :
      IsSuccess(results[k]) => wikiPages[PathOfResult(k)] = results[k].item

\* What the code does: the content of an exported page is replaced exactly
\* when a later page of the run with the same path was exported with
\* success; the path then holds the content of the last of them.
ReplacedExactlyOnCollision ==
  input.command = "export-to-wikijs" =>
    \A k \in 1..Len(results) :
      IsSuccess(results[k]) =>
        /\ PathOfResult(k) \in DOMAIN wikiPages
        /\ wikiPages[PathOfResult(k)] # results[k].item <=>
             \E j \in (k + 1)..Len(results) :
               IsSuccess(results[j]) /\ PathOfResult(j) = PathOfResult(k)

CallsOf(item, names) ==
  {k \in 1..Len(requests) : requests[k].item = item /\ requests[k].call \in names}

\* C29: with --no-update a page that exists at its path is skipped without
\* side effects: no uploadAsset, createPage or updatePage is called for it.
C29_SkipHasNoSideEffects ==
  input.command = "export-to-wikijs" =>
    \A k \in 1..Len(results) :
      results[k].status = "skipped" =>
        CallsOf(results[k].item, {"uploadAsset", "createPage", "updatePage"}) = {}

\* What the code does: a skipped page is neither created nor updated, its
\* entry has no uploaded assets, and an existing page whose round succeeds
\* under --no-update is skipped; its image is uploaded before the lookup
\* when --upload-images is given.
SkipWritesNoPage ==
  input.command = "export-to-wikijs" =>
    /\ \A k \in 1..Len(results) :
         results[k].status = "skipped" =>
           /\ CallsOf(results[k].item, {"createPage", "updatePage"}) = {}
           /\ results[k].uploadedAssets = 0
           /\ ~input.options.update
           /\ \A u \in CallsOf(results[k].item, {"uploadAsset"}) :
                /\ UploadsImages(input.options)
                /\ \E g \in CallsOf(results[k].item, {"getPageByPath"}) : u < g
    /\ \A k \in 1..Len(results) :
         (IsSuccess(results[k]) /\ ~input.options.update) =>
           \E c \in CallsOf(results[k].item, {"createPage"}) : TRUE
=============================================================================
